---- MODULE Spec2Model ----
(***************************************************************************)
(* Verification model of the esp-tag mesh core: the arena-backed routing   *)
(* tree (logic/arena.rs, logic/tree.rs) and the mesh protocol engine       *)
(* (logic/mesh.rs, logic/message.rs, logic/link.rs).                       *)
(***************************************************************************)
EXTENDS Integers, Sequences, FiniteSets, TLC

\* ------------------------------------------------------------------ bounds
\* Scaled-down stand-ins for tree.rs MAX_LEAFS (32) and MAX_CHILD_LEAFS (8):
\* small enough that a full arena and a full child list are both reached.
MAX_LEAFS == 4
MAX_CHILD_LEAFS == 2
\* Node identifiers used as arguments of the tree operations (SpecTree).
NumTreeNodes == 4

\* Scaled-down stand-ins for mesh.rs MAX_NEWS, ORGANIZE_QUEUE_SIZE and
\* RECV_QUEUE_SIZE (16 each) and for the capacity of a link's channel (32).
MAX_NEWS == 2
ORGANIZE_QUEUE_SIZE == 6
RECV_QUEUE_SIZE == 3
LINK_QUEUE_SIZE == 8
\* The latest start of a node, and the number of successful Mesh.send calls
\* the applications make: MaxSends with one or two nodes, LineSends with three.
MaxStartDelay == 2
MaxSends == 2
LineSends == 0
\* Time in units of 500 ms: the 1 s search round, the 500 ms poll timeout
\* and the 3 s leader tick.
SearchTimeout == 2
PollTimeout == 1
TickPeriod == 6
\* The payloads the application sends.
Payloads == {<<42>>, <<1, 2, 3>>}

TreeNodes == 1..NumTreeNodes
SlotIds == 0..(MAX_LEAFS - 1)

\* ------------------------------------------------------------ Option<T>
None == <<>>
Some(x) == <<x>>
Unwrap(o) == o[1]

\* B(v) with v computed once, as a Rust `let` binding is.
Let(v, B(_)) == CHOOSE r \in {B(x) : x \in {v}} : TRUE

Min(S) == CHOOSE x \in S : \A y \in S : x <= y
RemoveAt(s, i) == [k \in 1..(Len(s) - 1) |-> IF k < i THEN s[k] ELSE s[k + 1]]

\* ---------------------------------------------------------------- Leaf
EmptySlot == [kind |-> "Empty", nexts |-> <<>>, node |-> None]
new_own == [kind |-> "Own", nexts |-> <<>>, node |-> None]
new_foreign(n) == [kind |-> "Foreign", nexts |-> <<>>, node |-> Some(n)]
\* Leaf::get_node: None for Own, Some(node) for Foreign.
get_node(leaf) == leaf.node

\* --------------------------------------------------------------- Arena
\* free is a Vec used as a stack: alloc pops its last element.
ArenaNew ==
    [free |-> [i \in 1..MAX_LEAFS |-> i - 1],
     slots |-> [i \in SlotIds |-> EmptySlot]]

\* An alloc that hands out slot 0 again when no slot is free.
ArenaAlloc_reuse(a, val) ==
    IF Len(a.free) = 0
    THEN [id |-> Some(0), arena |-> [a EXCEPT !.slots[0] = val]]
    ELSE LET id == a.free[Len(a.free)]
         IN [id |-> Some(id),
             arena |-> [free |-> SubSeq(a.free, 1, Len(a.free) - 1),
                        slots |-> [a.slots EXCEPT ![id] = val]]]

ArenaAlloc(a, val) ==
    IF Len(a.free) = 0
    THEN [id |-> None, arena |-> a]
    ELSE LET id == a.free[Len(a.free)]
         IN [id |-> Some(id),
             arena |-> [free |-> SubSeq(a.free, 1, Len(a.free) - 1),
                        slots |-> [a.slots EXCEPT ![id] = val]]]

\* Mutant of ArenaRemove: the slot is emptied but its id is not given back.
ArenaRemove_forget(a, id) ==
    IF a.slots[id].kind = "Empty"
    THEN [res |-> "InvalidIndexError", val |-> None, arena |-> a]
    ELSE [res |-> "Ok", val |-> Some(a.slots[id]),
          arena |-> [a EXCEPT !.slots[id] = EmptySlot]]

\* Arena::remove: take() the slot, push its id on the free stack (a push on
\* a full stack is ignored).
ArenaRemove(a, id) ==
    IF a.slots[id].kind = "Empty"
    THEN [res |-> "InvalidIndexError", val |-> None, arena |-> a]
    ELSE [res |-> "Ok", val |-> Some(a.slots[id]),
          arena |-> [free |-> IF Len(a.free) < MAX_LEAFS
                              THEN Append(a.free, id) ELSE a.free,
                     slots |-> [a.slots EXCEPT ![id] = EmptySlot]]]

\* Arena::get: the value of the slot, SlotEmptyError for an empty one.
ArenaGet(a, id) ==
    IF a.slots[id].kind = "Empty"
    THEN [res |-> "SlotEmptyError", val |-> None]
    ELSE [res |-> "Ok", val |-> Some(a.slots[id])]

\* ---------------------------------------------------------------- Tree
TreeNew ==
    LET r == ArenaAlloc(ArenaNew, new_own)
    IN [leafs |-> r.arena, root_id |-> Unwrap(r.id)]

\* Mutant of remove_node_helper: finds the leaf but leaves it in its parent's
\* child list.
RECURSIVE remove_node_helper_keep(_, _, _)
remove_node_helper_keep(leafs, address, current_id) ==
    LET current == leafs.slots[current_id]
        nexts == current.nexts
        direct == {idx \in 1..Len(nexts) :
                      LET next == leafs.slots[nexts[idx]]
                      IN next.kind = "Foreign" /\ next.node = Some(address)}
        below == {idx \in 1..Len(nexts) :
                      remove_node_helper_keep(leafs, address, nexts[idx]).id # None}
    IN IF current.kind = "Empty" THEN [id |-> None, leafs |-> leafs]
       ELSE IF direct # {}
       THEN [id |-> Some(nexts[Min(direct)]), leafs |-> leafs]
       ELSE IF below # {}
       THEN remove_node_helper_keep(leafs, address, nexts[Min(below)])
       ELSE [id |-> None, leafs |-> leafs]

\* Detach the leaf carrying `address` from its parent's child list.
\* Returns the detached leaf's id (None when not found) and the arena.
RECURSIVE remove_node_helper(_, _, _)
remove_node_helper(leafs, address, current_id) ==
    LET current == leafs.slots[current_id]
        nexts == current.nexts
        direct == {idx \in 1..Len(nexts) :
                      LET next == leafs.slots[nexts[idx]]
                      IN next.kind = "Foreign" /\ next.node = Some(address)}
        below == {idx \in 1..Len(nexts) :
                      remove_node_helper(leafs, address, nexts[idx]).id # None}
    IN IF current.kind = "Empty" THEN [id |-> None, leafs |-> leafs]
       ELSE IF direct # {}
       THEN LET pos == Min(direct)
            IN [id |-> Some(nexts[pos]),
                leafs |-> [leafs EXCEPT !.slots[current_id].nexts = RemoveAt(nexts, pos)]]
       ELSE IF below # {}
       THEN remove_node_helper(leafs, address, nexts[Min(below)])
       ELSE [id |-> None, leafs |-> leafs]

\* Append leaf_id to the child list of the leaf whose get_node() equals
\* parent_address; a full child list makes push fail and the call return None.
RECURSIVE insert_node_helper(_, _, _, _)
insert_node_helper(leafs, parent_address, current_id, leaf_id) ==
    LET current == leafs.slots[current_id]
        nexts == current.nexts
        below == {idx \in 1..Len(nexts) :
                      insert_node_helper(leafs, parent_address, nexts[idx], leaf_id).ok}
    IN IF current.kind = "Empty" THEN [ok |-> FALSE, leafs |-> leafs]
       ELSE IF get_node(current) = parent_address
       THEN IF Len(nexts) < MAX_CHILD_LEAFS
            THEN [ok |-> TRUE,
                  leafs |-> [leafs EXCEPT !.slots[current_id].nexts = Append(nexts, leaf_id)]]
            ELSE [ok |-> FALSE, leafs |-> leafs]
       ELSE IF below # {}
       THEN insert_node_helper(leafs, parent_address, nexts[Min(below)], leaf_id)
       ELSE [ok |-> FALSE, leafs |-> leafs]

\* Mutant of upsert_edge: never looks for an existing leaf, always allocates.
upsert_edge_always_alloc(t, from, to) ==
    LET al == ArenaAlloc(t.leafs, new_foreign(to))
        ins == insert_node_helper(al.arena, from, t.root_id, Unwrap(al.id))
    IN IF al.id = None
       THEN [res |-> "LeafAllocationError", tree |-> t]
       ELSE IF ins.ok
       THEN [res |-> "Ok", tree |-> [t EXCEPT !.leafs = ins.leafs]]
       ELSE [res |-> "NodeNotFoundError", tree |-> [t EXCEPT !.leafs = al.arena]]

\* Mutant of upsert_edge: detaches an existing leaf but inserts a fresh one.
upsert_edge_realloc(t, from, to) ==
    LET rem == remove_node_helper(t.leafs, to, t.root_id)
        al == ArenaAlloc(rem.leafs, new_foreign(to))
        ins == insert_node_helper(al.arena, from, t.root_id, Unwrap(al.id))
    IN IF al.id = None
       THEN [res |-> "LeafAllocationError", tree |-> t]
       ELSE IF ins.ok
       THEN [res |-> "Ok", tree |-> [t EXCEPT !.leafs = ins.leafs]]
       ELSE [res |-> "NodeNotFoundError", tree |-> [t EXCEPT !.leafs = al.arena]]

\* Mutant of upsert_edge: a failed insert leaves the tree as it was.
upsert_edge_keep_on_fail(t, from, to) ==
    Let(remove_node_helper(t.leafs, to, t.root_id), LAMBDA rem :
    Let(ArenaAlloc(t.leafs, new_foreign(to)), LAMBDA al :
    Let(IF rem.id # None THEN rem.id ELSE al.id, LAMBDA leaf_id :
    Let(IF rem.id # None THEN rem.leafs ELSE al.arena, LAMBDA leafs1 :
        IF leaf_id = None
        THEN [res |-> "LeafAllocationError", tree |-> t]
        ELSE Let(insert_node_helper(leafs1, from, t.root_id, Unwrap(leaf_id)), LAMBDA ins :
                 IF ins.ok
                 THEN [res |-> "Ok", tree |-> [t EXCEPT !.leafs = ins.leafs]]
                 ELSE [res |-> "NodeNotFoundError", tree |-> t])))))

\* Tree::upsert_edge: the result and the tree after the call.
upsert_edge(t, from, to) ==
    Let(remove_node_helper(t.leafs, to, t.root_id), LAMBDA rem :
    Let(ArenaAlloc(t.leafs, new_foreign(to)), LAMBDA al :
    Let(IF rem.id # None THEN rem.id ELSE al.id, LAMBDA leaf_id :
    Let(IF rem.id # None THEN rem.leafs ELSE al.arena, LAMBDA leafs1 :
        IF leaf_id = None
        THEN [res |-> "LeafAllocationError", tree |-> t]
        ELSE Let(insert_node_helper(leafs1, from, t.root_id, Unwrap(leaf_id)), LAMBDA ins :
                 IF ins.ok
                 THEN [res |-> "Ok", tree |-> [t EXCEPT !.leafs = ins.leafs]]
                 ELSE [res |-> "NodeNotFoundError", tree |-> [t EXCEPT !.leafs = leafs1]])))))

Ok(n) == [ok |-> TRUE, node |-> Some(n), err |-> ""]
Err(e) == [ok |-> FALSE, node |-> None, err |-> e]

RECURSIVE next_hop_helper(_, _, _)
next_hop_helper(t, destination, current_id) ==
    LET current == t.leafs.slots[current_id]
        nexts == current.nexts
        hits == {idx \in 1..Len(nexts) :
                    next_hop_helper(t, destination, nexts[idx]).ok}
    IN IF current.kind = "Empty" THEN Err("LeafNotFoundError")
       ELSE IF current.kind = "Foreign" /\ current.node = Some(destination)
       THEN Ok(destination)
       ELSE IF hits # {}
       THEN LET ret == t.leafs.slots[nexts[Min(hits)]]
            IN IF ret.kind = "Empty" THEN Err("LeafNotFoundError")
               ELSE IF get_node(ret) = None THEN Err("RootIsDestinationError")
               ELSE Ok(Unwrap(get_node(ret)))
       ELSE Err("NodeNotFoundError")

\* Mutant of next_hop: answers with the destination itself, not with the
\* child of the root that leads to it.
next_hop_direct(t, destination) ==
    LET r == next_hop_helper(t, destination, t.root_id)
    IN IF r.ok THEN Ok(destination) ELSE r

\* Mutant of next_hop: a destination that is in the tree is answered with the
\* first child of the root, whatever branch holds it.
next_hop_first(t, destination) ==
    LET r == next_hop_helper(t, destination, t.root_id)
        first == t.leafs.slots[t.leafs.slots[t.root_id].nexts[1]]
    IN IF r.ok THEN Ok(Unwrap(get_node(first))) ELSE r

next_hop(t, destination) == next_hop_helper(t, destination, t.root_id)

Max(S) == CHOOSE x \in S : \A y \in S : x >= y

RECURSIVE height_helper(_, _)
height_helper(t, current_id) ==
    LET current == t.leafs.slots[current_id]
        nexts == current.nexts
    IN IF current.kind = "Empty" THEN 0
       ELSE IF Len(nexts) = 0 THEN 1
       ELSE Max({height_helper(t, nexts[i]) : i \in 1..Len(nexts)}) + 1

height(t) == height_helper(t, t.root_id)

\* ------------------------------------------------- structure of a tree
Range(s) == {s[i] : i \in 1..Len(s)}

\* The leaves reached from `id` by following child lists (at most `fuel` levels).
RECURSIVE ReachFrom(_, _, _)
ReachFrom(t, id, fuel) ==
    IF fuel = 0 THEN {id}
    ELSE {id} \cup UNION {ReachFrom(t, c, fuel - 1) : c \in Range(t.leafs.slots[id].nexts)}

Reach(t) == ReachFrom(t, t.root_id, MAX_LEAFS)
Subtree(t, id) == ReachFrom(t, id, MAX_LEAFS)
\* The reachable leaves that carry node n.
Carriers(t, n) ==
    {id \in Reach(t) : t.leafs.slots[id].kind = "Foreign" /\ t.leafs.slots[id].node = Some(n)}
InTree(t, n) == Carriers(t, n) # {}
\* The reachable leaves whose child list holds id.
Parents(t, id) == {p \in Reach(t) : id \in Range(t.leafs.slots[p].nexts)}
\* get_node() of the parent of id: None when the parent is the Own root.
ParentNode(t, id) == get_node(t.leafs.slots[CHOOSE p \in Parents(t, id) : TRUE])
\* The places <<parent, position>> where id occurs in a reachable child list.
Occurrences(t, r, id) ==
    {pk \in UNION {{<<p, k>> : k \in 1..Len(t.leafs.slots[p].nexts)} : p \in r} :
        t.leafs.slots[pk[1]].nexts[pk[2]] = id}

IsTree(t) ==
    LET r == Reach(t)
    IN /\ t.leafs.slots[t.root_id].kind = "Own"
       /\ Occurrences(t, r, t.root_id) = {}
       /\ \A id \in r \ {t.root_id} :
             /\ t.leafs.slots[id].kind = "Foreign"
             /\ Cardinality(Occurrences(t, r, id)) = 1
             /\ id \notin UNION {Subtree(t, c) : c \in Range(t.leafs.slots[id].nexts)}

\* ------------------------------------------------------- Node, wire codec
\* Node::new(mac) for the macs [0, 0, 0, 0, 0, k] the tests use.
NodeId(k) == <<0, 0, 0, 0, 0, k>>
BROADCAST_NODE == <<255, 255, 255, 255, 255, 255>>
NodeA == NodeId(1)
NodeB == NodeId(2)
NodeC == NodeId(3)
MeshNodes == {NodeA, NodeB, NodeC}

\* MESSAGE_SIZE, the capacity of MessageData.
MESSAGE_SIZE == 256

\* Cursor::new / Cursor::take: pos is the number of bytes already taken.
CursorNew(buf) == [buf |-> buf, pos |-> 0]
take(cursor, k) ==
    IF cursor.pos + k > Len(cursor.buf)
    THEN [ok |-> FALSE, bytes |-> <<>>, cursor |-> cursor]
    ELSE [ok |-> TRUE,
          bytes |-> SubSeq(cursor.buf, cursor.pos + 1, cursor.pos + k),
          cursor |-> [cursor EXCEPT !.pos = @ + k]]

\* Node as WireCodec: the six mac bytes.
encode_node(node) == node
decode_node(cursor) ==
    Let(take(cursor, 6), LAMBDA t : [ok |-> t.ok, val |-> t.bytes, cursor |-> t.cursor])

\* Option<Node> as WireCodec: flag byte 0, or flag byte 1 and the value.
encode_option_node(o) ==
    IF o = None THEN <<0>> ELSE <<1>> \o encode_node(Unwrap(o))
decode_option_node(cursor) ==
    Let(take(cursor, 1), LAMBDA f :
        IF ~f.ok THEN [ok |-> FALSE, val |-> None, cursor |-> cursor]
        ELSE IF f.bytes[1] = 0 THEN [ok |-> TRUE, val |-> None, cursor |-> f.cursor]
        ELSE IF f.bytes[1] = 1
        THEN Let(decode_node(f.cursor), LAMBDA d :
                 [ok |-> d.ok, val |-> IF d.ok THEN Some(d.val) ELSE None,
                  cursor |-> d.cursor])
        ELSE [ok |-> FALSE, val |-> None, cursor |-> cursor])

\* i32::to_le_bytes / i32::from_le_bytes (two's complement, 32 bits).
i32_to_be_bytes(x) ==
    LET lo == x % 16777216
        hi == (x \div 16777216) % 256
    IN <<hi, (lo \div 65536) % 256, (lo \div 256) % 256, lo % 256>>
i32_to_le_bytes(x) ==
    LET lo == x % 16777216
        hi == (x \div 16777216) % 256
    IN <<lo % 256, (lo \div 256) % 256, (lo \div 65536) % 256, hi>>
i32_from_le_bytes(b) ==
    LET lo == b[1] + 256 * b[2] + 65536 * b[3]
    IN IF b[4] >= 128 THEN lo + 16777216 * (b[4] - 256) ELSE lo + 16777216 * b[4]

\* ------------------------------------------------------- MessageContent
\* One record shape for all variants: `data` is the Application payload,
\* `n` and `p` the node fields (Option), `rssi` the SendNew rssi.
MessageContent(type, data, node, parent, rssi) ==
    [type |-> type, data |-> data, n |-> node, p |-> parent, rssi |-> rssi]
Application(d) == MessageContent("Application", d, None, None, 0)
Discovery == MessageContent("Discovery", <<>>, None, None, 0)
Invitation == MessageContent("Invitation", <<>>, None, None, 0)
RequestNews == MessageContent("RequestNews", <<>>, None, None, 0)
SendNew(node, rssi) == MessageContent("SendNew", <<>>, Some(node), None, rssi)
FinSendNew == MessageContent("FinSendNew", <<>>, None, None, 0)
UpsertEdgeMsg(node, parent) == MessageContent("UpsertEdge", <<>>, node, parent, 0)
RequestInitTopology(node) == MessageContent("RequestInitTopology", <<>>, Some(node), None, 0)

\* MessageType as u8 and TryFrom<u8> for MessageType.
MessageTypeByte(type) ==
    CASE type = "Application" -> 1
      [] type = "Discovery" -> 2
      [] type = "Invitation" -> 3
      [] type = "RequestNews" -> 4
      [] type = "SendNew" -> 5
      [] type = "FinSendNew" -> 6
      [] type = "UpsertEdge" -> 7
      [] type = "RequestInitTopology" -> 8
MessageTypes ==
    {"Application", "Discovery", "Invitation", "RequestNews", "SendNew",
     "FinSendNew", "UpsertEdge", "RequestInitTopology"}
MessageTypeFrom(byte) ==
    IF \E t \in MessageTypes : MessageTypeByte(t) = byte
    THEN Some(CHOOSE t \in MessageTypes : MessageTypeByte(t) = byte)
    ELSE None

\* MessageContent::encode, without the capacity of `out` (serialize checks it).
encode_content(c) ==
    <<MessageTypeByte(c.type)>> \o
    (CASE c.type = "Application" -> <<Len(c.data) % 256>> \o c.data
       [] c.type = "SendNew" -> encode_node(Unwrap(c.n)) \o i32_to_le_bytes(c.rssi)
       [] c.type = "UpsertEdge" -> encode_option_node(c.n) \o encode_option_node(c.p)
       [] c.type = "RequestInitTopology" -> encode_node(Unwrap(c.n))
       [] OTHER -> <<>>)

DecodeFail(cursor) == [ok |-> FALSE, val |-> Discovery, cursor |-> cursor]
\* MessageContent::decode.
decode_content(cursor) ==
    Let(take(cursor, 1), LAMBDA tb :
    Let(IF tb.ok THEN MessageTypeFrom(tb.bytes[1]) ELSE None, LAMBDA ty :
    Let(tb.cursor, LAMBDA c1 :
        IF ty = None THEN DecodeFail(cursor)
        ELSE CASE Unwrap(ty) = "Application" ->
                    Let(take(c1, 1), LAMBDA lb :
                    Let(IF lb.ok THEN take(lb.cursor, lb.bytes[1]) ELSE lb, LAMBDA d :
                        IF lb.ok /\ d.ok
                        THEN [ok |-> TRUE, val |-> Application(d.bytes), cursor |-> d.cursor]
                        ELSE DecodeFail(cursor)))
               [] Unwrap(ty) = "SendNew" ->
                    Let(decode_node(c1), LAMBDA nd :
                    Let(IF nd.ok THEN take(nd.cursor, 4) ELSE take(c1, 0), LAMBDA rb :
                        IF nd.ok /\ rb.ok
                        THEN [ok |-> TRUE, val |-> SendNew(nd.val, i32_from_le_bytes(rb.bytes)),
                              cursor |-> rb.cursor]
                        ELSE DecodeFail(cursor)))
               [] Unwrap(ty) = "UpsertEdge" ->
                    Let(decode_option_node(c1), LAMBDA nd :
                    Let(IF nd.ok THEN decode_option_node(nd.cursor) ELSE nd, LAMBDA pd :
                        IF nd.ok /\ pd.ok
                        THEN [ok |-> TRUE, val |-> UpsertEdgeMsg(nd.val, pd.val),
                              cursor |-> pd.cursor]
                        ELSE DecodeFail(cursor)))
               [] Unwrap(ty) = "RequestInitTopology" ->
                    Let(decode_node(c1), LAMBDA nd :
                        IF nd.ok
                        THEN [ok |-> TRUE, val |-> RequestInitTopology(nd.val),
                              cursor |-> nd.cursor]
                        ELSE DecodeFail(cursor))
               [] OTHER ->
                    [ok |-> TRUE, val |-> MessageContent(Unwrap(ty), <<>>, None, None, 0),
                     cursor |-> c1])))

\* ------------------------------------------- SendMessage, ReceiveMessage
SendMessage(final_destination, data, final_source) ==
    [data |-> data, final_destination |-> final_destination, final_source |-> final_source]

\* SendMessage::serialize: content, final_destination, Option<final_source>,
\* each appended to `out`; the part that does not fit MessageData any more
\* gives the error.
SerializeErr(e) == [ok |-> FALSE, data |-> <<>>, err |-> e]
serialize(msg) ==
    Let(encode_content(msg.data), LAMBDA content :
    Let(content \o encode_node(msg.final_destination), LAMBDA dest :
    Let(dest \o encode_option_node(msg.final_source), LAMBDA out :
        IF Len(content) > MESSAGE_SIZE THEN SerializeErr("MessageTypeEncodeError")
        ELSE IF Len(dest) > MESSAGE_SIZE THEN SerializeErr("FinalDestinationEncodeError")
        ELSE IF Len(out) > MESSAGE_SIZE THEN SerializeErr("FinalSourceEncodeError")
        ELSE [ok |-> TRUE, data |-> out, err |-> ""])))

\* The bytes serialize adds to an Application payload sent without final_source:
\* tag, length byte, final_destination, option flag.
Framing == Len(serialize(SendMessage(NodeA, Application(<<>>), None)).data)

\* ReceiveMessage::new: a final_source of None is replaced by the link source.
ReceiveMessage_new(payload, destination, source, rssi) ==
    Let(decode_content(CursorNew(payload)), LAMBDA c :
    Let(IF c.ok THEN decode_node(c.cursor)
        ELSE [ok |-> FALSE, val |-> <<>>, cursor |-> c.cursor], LAMBDA fd :
    Let(IF fd.ok THEN decode_option_node(fd.cursor)
        ELSE [ok |-> FALSE, val |-> None, cursor |-> fd.cursor], LAMBDA fs :
        IF c.ok /\ fd.ok /\ fs.ok
        THEN [ok |-> TRUE,
              msg |-> [data |-> c.val, final_destination |-> fd.val,
                       destination |-> destination, source |-> source,
                       final_source |-> IF fs.val = None THEN source ELSE Unwrap(fs.val),
                       rssi |-> rssi]]
        ELSE [ok |-> FALSE,
              msg |-> [data |-> Discovery, final_destination |-> destination,
                       destination |-> destination, source |-> source,
                       final_source |-> source, rssi |-> rssi]])))

is_final_destination(msg) == msg.final_destination = msg.destination
\* An is_organization that is true of every variant.
is_organization_any(msg) == msg.data.type \in MessageTypes
is_organization(msg) == msg.data.type # "Application"
\* impl Into<SendMessage> for ReceiveMessage.
into_send(msg) == SendMessage(msg.final_destination, msg.data, Some(msg.final_source))

\* --------------------------------------------------------- Tree iteration
\* The (node, parent) pairs of the Foreign leaves, parents before children,
\* children in insertion order; parent is None for the children of the root.
RECURSIVE iter_list(_, _, _)
iter_list(t, ids, parent) ==
    IF ids = <<>> THEN <<>>
    ELSE LET leaf == t.leafs.slots[Head(ids)]
         IN <<[node |-> Unwrap(leaf.node), parent |-> parent]>>
               \o iter_list(t, leaf.nexts, leaf.node)
               \o iter_list(t, Tail(ids), parent)
tree_iter(t) == iter_list(t, t.leafs.slots[t.root_id].nexts, None)

\* ------------------------------------------------------------------ Mesh
\* A send_content that sends straight to a destination the tree does not know.
send_content_direct(t, content, destination) ==
    Let(next_hop(t, destination), LAMBDA next :
    Let(serialize(SendMessage(destination, content, None)), LAMBDA ser :
        IF ~ser.ok
        THEN [res |-> "SerializationError", cause |-> ser.err, frames |-> <<>>]
        ELSE [res |-> "Ok", cause |-> "",
              frames |-> <<[data |-> ser.data,
                            to |-> IF next.ok THEN Unwrap(next.node) ELSE destination]>>]))
\* Mesh::send_content: the result, and the frames handed to link.send.
send_content(t, content, destination) ==
    Let(next_hop(t, destination), LAMBDA next :
    Let(serialize(SendMessage(destination, content, None)), LAMBDA ser :
        IF ~next.ok THEN [res |-> next.err, cause |-> "TreeError", frames |-> <<>>]
        ELSE IF ~ser.ok
        THEN [res |-> "SerializationError", cause |-> ser.err, frames |-> <<>>]
        ELSE [res |-> "Ok", cause |-> "",
              frames |-> <<[data |-> ser.data, to |-> Unwrap(next.node)]>>]))

\* A task's view while it runs: its tree and the frames it has handed to the
\* link so far.  Send(ctx, ...) is a send_content call whose result is ignored.
Send(ctx, content, destination) ==
    Let(ctx, LAMBDA c :
        [c EXCEPT !.out = @ \o send_content(c.tree, content, destination).frames])

\* send_discovery: the broadcast frame.
send_discovery ==
    LET ser == serialize(SendMessage(BROADCAST_NODE, Discovery, None))
    IN IF ser.ok THEN <<[data |-> ser.data, to |-> BROADCAST_NODE]>> ELSE <<>>

\* An edge_parent that takes the parent field as it was sent.
edge_parent_as_sent(msg) == msg.data.p
\* The parent and child an UpsertEdge((n, p)) message names at its receiver.
edge_parent(msg) ==
    IF msg.data.p = None THEN Some(msg.final_source)
    ELSE IF Unwrap(msg.data.p) = msg.final_destination THEN None
    ELSE msg.data.p
\* An edge_new that takes the last hop for the sender.
edge_new_hop(msg) ==
    IF msg.data.n = None THEN msg.source ELSE Unwrap(msg.data.n)
edge_new(msg) ==
    IF msg.data.n = None THEN msg.final_source ELSE Unwrap(msg.data.n)

\* send_initial_topology(new): the self edge, then one edge per tree entry.
RECURSIVE send_edges(_, _, _)
send_edges(ctx, nodes, new) ==
    IF nodes = <<>> THEN ctx
    ELSE Let(Send(ctx, UpsertEdgeMsg(Some(Head(nodes).node), Head(nodes).parent), new),
             LAMBDA c1 : send_edges(c1, Tail(nodes), new))
send_initial_topology(ctx, new) ==
    Let(Send(ctx, UpsertEdgeMsg(None, Some(new)), new), LAMBDA c1 :
    Let(tree_iter(c1.tree), LAMBDA nodes : send_edges(c1, nodes, new)))

\* collect_local_news: LinearMap::insert of (node, (None, rssi)) for each entry
\* of news; an existing key keeps its place, a new key needs a free place.
NewsIndex(all_news, node) == {i \in 1..Len(all_news) : all_news[i].node = node}
all_news_insert(all_news, node, parent, rssi) ==
    LET e == [node |-> node, parent |-> parent, rssi |-> rssi]
        at == NewsIndex(all_news, node)
    IN IF at # {} THEN [all_news EXCEPT ![CHOOSE i \in at : TRUE] = e]
       ELSE IF Len(all_news) < MAX_NEWS THEN Append(all_news, e)
       ELSE all_news
RECURSIVE collect_local_news(_, _)
collect_local_news(news, all_news) ==
    IF news = <<>> THEN all_news
    ELSE collect_local_news(Tail(news),
                            all_news_insert(all_news, Head(news).node, None, Head(news).rssi))

\* handle_news_response: the new all_news and whether to keep polling.
handle_news_response(all_news, parent, response) ==
    IF response.data.type = "SendNew"
    THEN LET node == Unwrap(response.data.n)
             rssi == response.data.rssi
             at == NewsIndex(all_news, node)
         IN [more |-> TRUE,
             all_news |->
                IF at = {} THEN all_news_insert(all_news, node, Some(parent), rssi)
                ELSE IF all_news[CHOOSE i \in at : TRUE].rssi < rssi
                     THEN all_news_insert(all_news, node, Some(parent), rssi)
                     ELSE all_news]
    ELSE [more |-> response.data.type # "FinSendNew", all_news |-> all_news]

\* send_topology_updates, lines 290-293: every tree entry (node, parent) is
\* sent UpsertEdge((Some(new_node), parent)) with its own parent.
RECURSIVE announce(_, _, _)
announce(ctx, nodes, new_node) ==
    IF nodes = <<>> THEN ctx
    ELSE Let(Send(ctx, UpsertEdgeMsg(Some(new_node), Head(nodes).parent), Head(nodes).node),
             LAMBDA c1 : announce(c1, Tail(nodes), new_node))

\* A leader that sends the initial topology before it inserts the new node.
RECURSIVE send_topology_updates_early(_, _)
send_topology_updates_early(ctx, all_news) ==
    IF all_news = <<>> THEN ctx
    ELSE Let(Head(all_news), LAMBDA e :
         Let(tree_iter(ctx.tree), LAMBDA nodes :
         Let(announce(ctx, nodes, e.node), LAMBDA c1 :
         Let(upsert_edge(c1.tree, None, e.node), LAMBDA up :
         Let(IF up.res # "Ok" THEN c1
             ELSE IF e.parent = None THEN send_initial_topology(c1, e.node)
             ELSE Send(c1, RequestInitTopology(e.node), Unwrap(e.parent)),
             LAMBDA c2 :
                send_topology_updates_early([c2 EXCEPT !.tree = up.tree], Tail(all_news)))))))

RECURSIVE send_topology_updates(_, _)
send_topology_updates(ctx, all_news) ==
    IF all_news = <<>> THEN ctx
    ELSE Let(Head(all_news), LAMBDA e :
         Let(tree_iter(ctx.tree), LAMBDA nodes :
         Let(announce(ctx, nodes, e.node), LAMBDA c1 :
         Let(upsert_edge(c1.tree, None, e.node), LAMBDA up :
         Let([c1 EXCEPT !.tree = up.tree], LAMBDA c2 :
         Let(IF up.res # "Ok" THEN c2
             ELSE IF e.parent = None THEN send_initial_topology(c2, e.node)
             ELSE Send(c2, RequestInitTopology(e.node), Unwrap(e.parent)),
             LAMBDA c3 : send_topology_updates(c3, Tail(all_news))))))))

\* The tasks of one node, as the number of running instances of each.
NoTasks == [searcher |-> 0, dispatcher |-> 0, leader |-> 0, follower |-> 0]
\* Mesh::new spawns the searcher and the dispatcher.
mesh_new(tasks) == [tasks EXCEPT !.searcher = @ + 1, !.dispatcher = @ + 1]
\* A searcher that spawns a second role task and keeps running.
spawn_role_no_break(tasks, role) == [tasks EXCEPT ![role] = @ + 1]
\* searcher_task on a decision: spawn the role task, then break.
spawn_role(tasks, role) == [tasks EXCEPT ![role] = @ + 1, !.searcher = @ - 1]

\* A vector that grows past its capacity.
push_unbounded(s, e, cap) == Append(s, e)
\* Vec::push on a bounded vector / try_send on a bounded channel: the
\* element is dropped when the vector is full.
push_bounded(s, e, cap) == IF Len(s) < cap THEN Append(s, e) ELSE s

\* The state of a node before Mesh::new.
NodeInit ==
    [tasks |-> NoTasks, tree |-> TreeNew, organize_queue |-> <<>>, recv_queue |-> <<>>,
     news |-> <<>>, search |-> 0, tick |-> 0, pc |-> "idle",
     all_news |-> <<>>, poll_nodes |-> <<>>, poll |-> 0]

\* A searcher that becomes follower on an UpsertEdge it does not apply.
searcher_recv_hasty(st, msg) ==
    LET q == [st EXCEPT !.organize_queue = Tail(@)]
    IN CASE msg.data.type = "Discovery" ->
               [q EXCEPT !.tasks = spawn_role(@, "leader"), !.search = 0,
                         !.news = <<>>, !.tick = 0, !.pc = "idle"]
         [] msg.data.type = "UpsertEdge" ->
               [q EXCEPT !.tasks = spawn_role(@, "follower"), !.search = 0, !.news = <<>>]
         [] OTHER -> q
\* wait_for_invitation on one message of organize_queue.
searcher_recv(st, msg) ==
    LET q == [st EXCEPT !.organize_queue = Tail(@)]
    IN CASE msg.data.type = "Discovery" ->
               [q EXCEPT !.tasks = spawn_role(@, "leader"), !.search = 0,
                         !.news = <<>>, !.tick = 0, !.pc = "idle"]
         [] msg.data.type = "UpsertEdge" ->
               [q EXCEPT !.tasks = spawn_role(@, "follower"), !.search = 0, !.news = <<>>,
                         !.tree = upsert_edge(@, edge_parent(msg), edge_new(msg)).tree]
         [] OTHER -> q

\* handle_leader_message.
handle_leader_message(news, msg) ==
    IF msg.data.type = "Discovery"
    THEN push_bounded(news, [node |-> msg.final_source, rssi |-> msg.rssi], MAX_NEWS)
    ELSE news

\* collect_remote_news from its for loop on: ask the next tree entry for its
\* news, or, with none left, run send_topology_updates and clear news.
poll_next(st, nodes) ==
    IF nodes = <<>>
    THEN Let(send_topology_updates([tree |-> st.tree, out |-> <<>>], st.all_news), LAMBDA c :
             [st |-> [st EXCEPT !.tree = c.tree, !.news = <<>>, !.all_news = <<>>,
                                !.pc = "idle", !.poll_nodes = <<>>, !.poll = 0],
              out |-> c.out])
    ELSE [st |-> [st EXCEPT !.pc = "poll", !.poll_nodes = nodes, !.poll = PollTimeout],
          out |-> send_content(st.tree, RequestNews, Head(nodes).node).frames]

\* leader_task when the ticker fires: process_news_round up to its first wait.
leader_tick(st) ==
    Let([st EXCEPT !.tick = TickPeriod, !.all_news = collect_local_news(st.news, <<>>)],
        LAMBDA q : Let(tree_iter(st.tree), LAMBDA nodes : poll_next(q, nodes)))

\* collect_remote_news on one message of organize_queue.
leader_poll_recv(st, msg) ==
    Let(handle_news_response(st.all_news, Head(st.poll_nodes).node, msg), LAMBDA r :
    Let([st EXCEPT !.organize_queue = Tail(@), !.all_news = r.all_news], LAMBDA q :
        IF r.more
        THEN [st |-> [q EXCEPT !.poll = PollTimeout], out |-> <<>>]
        ELSE poll_next(q, Tail(st.poll_nodes))))

\* A follower that reports its news last entry first.
RECURSIVE send_news_backward(_, _, _)
send_news_backward(ctx, news, to) ==
    IF news = <<>> THEN Send(ctx, FinSendNew, to)
    ELSE Let(Send(ctx, SendNew(news[Len(news)].node, news[Len(news)].rssi), to),
             LAMBDA c1 : send_news_backward(c1, SubSeq(news, 1, Len(news) - 1), to))
\* follower_task, RequestNews: one SendNew per news entry, then FinSendNew.
RECURSIVE send_news(_, _, _)
send_news(ctx, news, to) ==
    IF news = <<>> THEN Send(ctx, FinSendNew, to)
    ELSE Let(Send(ctx, SendNew(Head(news).node, Head(news).rssi), to),
             LAMBDA c1 : send_news(c1, Tail(news), to))

\* follower_task on one message of organize_queue.
follower_recv(st, msg) ==
    LET q == [st EXCEPT !.organize_queue = Tail(@)]
        ctx == [tree |-> st.tree, out |-> <<>>]
    IN CASE msg.data.type = "Discovery" ->
               [st |-> [q EXCEPT !.news = push_bounded(@, [node |-> msg.final_source,
                                                           rssi |-> msg.rssi], MAX_NEWS)],
                out |-> <<>>]
         [] msg.data.type = "RequestNews" ->
               [st |-> q, out |-> send_news(ctx, st.news, msg.final_source).out]
         [] msg.data.type = "UpsertEdge" ->
               [st |-> [q EXCEPT !.tree = upsert_edge(@, edge_parent(msg), edge_new(msg)).tree],
                out |-> <<>>]
         [] msg.data.type = "RequestInitTopology" ->
               [st |-> q, out |-> send_initial_topology(ctx, Unwrap(msg.data.n)).out]
         [] OTHER -> [st |-> q, out |-> <<>>]

\* dispatcher_task on one frame of the link: the node's new state, the frame
\* it forwards with link.try_send (if any), and whether the frame was dropped
\* on the way (parse error, no next hop, full queue).
Dropped(st) == [st |-> st, forward |-> <<>>, dropped |-> TRUE]
\* dispatcher_task, lines 385-398: forward a frame that is for another node.
forward(st, next, ser) ==
    IF next.ok /\ ser.ok
    THEN [st |-> st, forward |-> <<[data |-> ser.data, to |-> Unwrap(next.node)]>>,
          dropped |-> FALSE]
    ELSE Dropped(st)
\* A dispatcher that reports the hop destination as the source of a payload.
dispatch_hop_destination(st, msg) ==
    IF ~is_final_destination(msg) /\ msg.data.type # "Discovery"
    THEN Let(next_hop(st.tree, msg.final_destination), LAMBDA next :
         Let(serialize(into_send(msg)), LAMBDA ser : forward(st, next, ser)))
    ELSE IF is_organization(msg)
    THEN IF Len(st.organize_queue) < ORGANIZE_QUEUE_SIZE
         THEN [st |-> [st EXCEPT !.organize_queue = Append(@, msg)],
               forward |-> <<>>, dropped |-> FALSE]
         ELSE Dropped(st)
    ELSE IF Len(st.recv_queue) < RECV_QUEUE_SIZE
         THEN [st |-> [st EXCEPT !.recv_queue =
                              Append(@, [data |-> msg.data.data, source |-> msg.destination])],
               forward |-> <<>>, dropped |-> FALSE]
         ELSE Dropped(st)
\* A dispatcher whose queues take one item more than their capacity.
dispatch_overfull(st, msg) ==
    IF ~is_final_destination(msg) /\ msg.data.type # "Discovery"
    THEN Let(next_hop(st.tree, msg.final_destination), LAMBDA next :
         Let(serialize(into_send(msg)), LAMBDA ser : forward(st, next, ser)))
    ELSE IF is_organization(msg)
    THEN IF Len(st.organize_queue) <= ORGANIZE_QUEUE_SIZE
         THEN [st |-> [st EXCEPT !.organize_queue = Append(@, msg)],
               forward |-> <<>>, dropped |-> FALSE]
         ELSE Dropped(st)
    ELSE IF Len(st.recv_queue) <= RECV_QUEUE_SIZE
         THEN [st |-> [st EXCEPT !.recv_queue =
                              Append(@, [data |-> msg.data.data, source |-> msg.final_source])],
               forward |-> <<>>, dropped |-> FALSE]
         ELSE Dropped(st)
\* A dispatcher that puts a message at the head of its queue.
dispatch_front(st, msg) ==
    IF ~is_final_destination(msg) /\ msg.data.type # "Discovery"
    THEN Let(next_hop(st.tree, msg.final_destination), LAMBDA next :
         Let(serialize(into_send(msg)), LAMBDA ser : forward(st, next, ser)))
    ELSE IF is_organization(msg)
    THEN IF Len(st.organize_queue) < ORGANIZE_QUEUE_SIZE
         THEN [st |-> [st EXCEPT !.organize_queue = <<msg>> \o @],
               forward |-> <<>>, dropped |-> FALSE]
         ELSE Dropped(st)
    ELSE IF Len(st.recv_queue) < RECV_QUEUE_SIZE
         THEN [st |-> [st EXCEPT !.recv_queue =
                              <<[data |-> msg.data.data, source |-> msg.final_source]>> \o @],
               forward |-> <<>>, dropped |-> FALSE]
         ELSE Dropped(st)
\* dispatcher_task, lines 382-412, on a parsed message.
dispatch(st, msg) ==
    IF ~is_final_destination(msg) /\ msg.data.type # "Discovery"
    THEN Let(next_hop(st.tree, msg.final_destination), LAMBDA next :
         Let(serialize(into_send(msg)), LAMBDA ser : forward(st, next, ser)))
    ELSE IF is_organization(msg)
    THEN IF Len(st.organize_queue) < ORGANIZE_QUEUE_SIZE
         THEN [st |-> [st EXCEPT !.organize_queue = Append(@, msg)],
               forward |-> <<>>, dropped |-> FALSE]
         ELSE Dropped(st)
    ELSE IF Len(st.recv_queue) < RECV_QUEUE_SIZE
         THEN [st |-> [st EXCEPT !.recv_queue =
                              Append(@, [data |-> msg.data.data, source |-> msg.final_source])],
               forward |-> <<>>, dropped |-> FALSE]
         ELSE Dropped(st)
\* A dispatcher that handles what is left of a frame that failed to parse.
parsed_lenient(st, rm) == dispatch(st, rm.msg)
parsed(st, rm) == IF rm.ok THEN dispatch(st, rm.msg) ELSE Dropped(st)
dispatcher(st, frame) ==
    Let(ReceiveMessage_new(frame.data, frame.destination, frame.source, frame.rssi),
        LAMBDA rm : parsed(st, rm))

\* ----------------------------------------------------------------- state
VARIABLES
    tree,       \* SpecTree: one Tree value
    lastRes,    \* SpecTree: the result of the last upsert_edge call ("" before the first)
    topology,   \* the nodes that exist and the peers each link is connected to
    startTimer, \* time left until Mesh::new runs on a node
    node,       \* per node: tasks, tree, queues, news, timers
    inbox,      \* per node: the receive channel of its link
    sent,       \* the Mesh.send calls that returned Ok, in order
    received,   \* per node: what Mesh.receive has returned, in order
    lost,       \* whether a frame or message has been dropped
    wire,       \* SpecFrame: the message on its way to the dispatcher of a node
    lock        \* SpecLock: the tree mutex of a node and the position of its tasks

meshVars == <<topology, startTimer, node, inbox, sent, received, lost, wire, lock>>
vars == <<tree, lastRes, topology, startTimer, node, inbox, sent, received, lost, wire, lock>>

\* The end-to-end scenarios: one node, two connected nodes, three in a line;
\* `sends` is the number of successful Mesh.send calls of the applications,
\* `staggered` whether no two nodes run Mesh::new at the same time.
NoDelay == [m \in MeshNodes |-> 0]
Single ==
    [present |-> {NodeA}, sends |-> MaxSends, staggered |-> TRUE,
     conn |-> [m \in MeshNodes |-> {}]]
Pair ==
    [present |-> {NodeA, NodeB}, sends |-> MaxSends, staggered |-> TRUE,
     conn |-> [m \in MeshNodes |->
                 IF m = NodeA THEN {NodeB} ELSE IF m = NodeB THEN {NodeA} ELSE {}]]
Line ==
    [present |-> MeshNodes, sends |-> LineSends, staggered |-> TRUE,
     conn |-> [m \in MeshNodes |-> IF m = NodeB THEN {NodeA, NodeC} ELSE {NodeB}]]
Topologies == {Single, Pair, Line}

\* No message under way outside the links; the tree mutex is not modelled.
NoWire == <<>>
NoLock == <<>>
MeshIdle ==
    /\ node = [m \in MeshNodes |-> NodeInit]
    /\ inbox = [m \in MeshNodes |-> <<>>]
    /\ sent = <<>>
    /\ received = [m \in MeshNodes |-> <<>>]
    /\ lost = FALSE
    /\ wire = NoWire
    /\ lock = NoLock

InitTree ==
    /\ tree = TreeNew
    /\ lastRes = ""
    /\ topology = Single
    /\ startTimer = NoDelay
    /\ MeshIdle

\* One call tree.upsert_edge(from, to).
UpsertEdge(from, to) ==
    LET r == upsert_edge(tree, from, to)
    IN /\ tree' = r.tree
       /\ lastRes' = r.res
       /\ UNCHANGED meshVars

OptNodes == {None} \cup {Some(n) : n \in TreeNodes}

NextTree ==
    \E from \in OptNodes, to \in TreeNodes : UpsertEdge(from, to)

SpecTree == InitTree /\ [][NextTree]_vars

\* ------------------------------------------------------------ mesh steps
\* The links exist and are connected before any node starts; each node runs
\* Mesh::new after its start delay, and at least one starts at once.
Init ==
    /\ tree = TreeNew
    /\ lastRes = ""
    /\ \E t \in Topologies, d \in [MeshNodes -> 0..MaxStartDelay] :
          /\ \E m \in t.present : d[m] = 0
          /\ \A m \in MeshNodes \ t.present : d[m] = 0
          /\ topology = [t EXCEPT !.staggered =
                               \A m \in t.present, n \in t.present : m # n => d[m] # d[n]]
          /\ startTimer = d
    /\ MeshIdle

Started(s) == node[s].tasks.dispatcher > 0

\* A link that delivers a broadcast to its own node as well.
Receivers_loopback(src, to) ==
    IF to = BROADCAST_NODE THEN topology.conn[src] \cup {src}
    ELSE {to} \cap topology.conn[src]
\* MockLink::send from src: a broadcast goes to every connected peer, a
\* frame for a connected peer to that peer, any other frame nowhere.
Receivers(src, to) ==
    IF to = BROADCAST_NODE THEN topology.conn[src] ELSE {to} \cap topology.conn[src]
RECURSIVE link_send(_, _, _)
link_send(inb, src, frames) ==
    IF frames = <<>> THEN inb
    ELSE LET f == Head(frames)
         IN link_send([m \in MeshNodes |->
                          IF m \in Receivers(src, f.to)
                          THEN Append(inb[m], [data |-> f.data, source |-> src,
                                               destination |-> m, rssi |-> 255])
                          ELSE inb[m]],
                      src, Tail(frames))
Unconnected(src, frames) ==
    \E i \in 1..Len(frames) : Receivers(src, frames[i].to) = {}
\* link.send waits while the receiver's channel is full.
Room(inb) == \A m \in MeshNodes : Len(inb[m]) <= LINK_QUEUE_SIZE

\* A step that hands nothing to the link.
Quiet(st) == [st |-> st, out |-> <<>>]
\* A task of node s moves to state r.st having handed r.out to link.send.
Commit(s, r) ==
    \E inb \in {link_send(inbox, s, r.out)} :
    /\ Room(inb)
    /\ node' = [node EXCEPT ![s] = r.st]
    /\ inbox' = inb
    /\ lost' = (lost \/ Unconnected(s, r.out))
    /\ UNCHANGED <<wire, lock, tree, lastRes, topology, startTimer, sent, received>>

\* Mesh::new on node s.
Start(s) ==
    /\ s \in topology.present
    /\ ~Started(s)
    /\ startTimer[s] = 0
    /\ Commit(s, Quiet([node[s] EXCEPT !.tasks = mesh_new(@), !.search = SearchTimeout]))

\* run_search_round: the 1 s timer wins; broadcast a Discovery, next round.
SearcherTimeout(s) ==
    /\ node[s].tasks.searcher > 0
    /\ node[s].search = 0
    /\ Commit(s, [st |-> [node[s] EXCEPT !.search = SearchTimeout], out |-> send_discovery])

\* run_search_round: wait_for_invitation gets a message.
SearcherRecv(s) ==
    /\ node[s].tasks.searcher > 0
    /\ node[s].organize_queue # <<>>
    /\ \E st \in {searcher_recv(node[s], Head(node[s].organize_queue))} : Commit(s, Quiet(st))

\* leader_task: the select yields a message.
LeaderRecv(s) ==
    /\ node[s].tasks.leader > 0
    /\ node[s].pc = "idle"
    /\ node[s].organize_queue # <<>>
    /\ Commit(s, Quiet([node[s] EXCEPT
                            !.organize_queue = Tail(@),
                            !.news = handle_leader_message(@, Head(node[s].organize_queue))]))

\* leader_task: the select yields the tick.
LeaderTick(s) ==
    /\ node[s].tasks.leader > 0
    /\ node[s].pc = "idle"
    /\ node[s].tick = 0
    /\ \E r \in {leader_tick(node[s])} : Commit(s, r)

\* collect_remote_news: the select yields a message.
LeaderPollRecv(s) ==
    /\ node[s].tasks.leader > 0
    /\ node[s].pc = "poll"
    /\ node[s].organize_queue # <<>>
    /\ \E r \in {leader_poll_recv(node[s], Head(node[s].organize_queue))} : Commit(s, r)

\* collect_remote_news: the select yields the 500 ms timeout.
LeaderPollTimeout(s) ==
    /\ node[s].tasks.leader > 0
    /\ node[s].pc = "poll"
    /\ node[s].poll = 0
    /\ \E r \in {poll_next(node[s], Tail(node[s].poll_nodes))} : Commit(s, r)

\* follower_task: one message of organize_queue.
FollowerRecv(s) ==
    /\ node[s].tasks.follower > 0
    /\ node[s].organize_queue # <<>>
    /\ \E r \in {follower_recv(node[s], Head(node[s].organize_queue))} : Commit(s, r)

\* dispatcher_task: one frame of the link.  A forwarded frame goes out with
\* link.try_send, which drops it when the receiver's channel is full.
Forwarded(s, r, rest) ==
    IF r.forward = <<>> THEN [inbox |-> rest, lost |-> r.dropped]
    ELSE IF \A m \in Receivers(s, r.forward[1].to) : Len(rest[m]) < LINK_QUEUE_SIZE
    THEN [inbox |-> link_send(rest, s, r.forward),
          lost |-> Receivers(s, r.forward[1].to) = {}]
    ELSE [inbox |-> rest, lost |-> TRUE]
DispatcherCommit(s, r, f) ==
    /\ node' = [node EXCEPT ![s] = r.st]
    /\ inbox' = f.inbox
    /\ lost' = (lost \/ f.lost)
    /\ UNCHANGED <<wire, lock, tree, lastRes, topology, startTimer, sent, received>>
DispatcherResult(s, r) ==
    \E f \in {Forwarded(s, r, [inbox EXCEPT ![s] = Tail(@)])} : DispatcherCommit(s, r, f)
DispatcherStep(s) ==
    /\ Started(s)
    /\ inbox[s] # <<>>
    /\ \E r \in {dispatcher(node[s], Head(inbox[s]))} : DispatcherResult(s, r)

\* The role of a node: that of the role task its searcher has spawned.
Role(s) ==
    IF node[s].tasks.leader > 0 THEN "leader"
    ELSE IF node[s].tasks.follower > 0 THEN "follower"
    ELSE "unassigned"
\* The nodes that are children of the root of t.
RootChildren(t) ==
    {Unwrap(t.leafs.slots[c].node) : c \in Range(t.leafs.slots[t.root_id].nexts)}
\* Every node has a role, one is the leader and the followers have it under
\* their root.
Elected ==
    \E l \in topology.present :
        /\ Role(l) = "leader"
        /\ \A f \in topology.present \ {l} :
              Role(f) = "follower" /\ l \in RootChildren(node[f].tree)

\* Mesh.send(d, dest) called on node s, with the result r of send_content.
AppSent(s, d, dest, r) ==
    /\ Room(link_send(inbox, s, r.frames))
    /\ inbox' = link_send(inbox, s, r.frames)
    /\ sent' = IF r.res = "Ok"
               THEN Append(sent, [src |-> s, dst |-> dest, data |-> d, elected |-> Elected])
               ELSE sent
    /\ lost' = (lost \/ Unconnected(s, r.frames))
    /\ UNCHANGED <<wire, lock, tree, lastRes, topology, startTimer, node, received>>
AppSend(s, d, dest) ==
    /\ Started(s)
    /\ Len(sent) < topology.sends
    /\ \E r \in {send_content(node[s].tree, Application(d), dest)} : AppSent(s, d, dest, r)

\* Mesh.receive() on node s returns the head of recv_queue.
AppReceive(s) ==
    /\ Started(s)
    /\ node[s].recv_queue # <<>>
    /\ received' = [received EXCEPT ![s] = Append(@, Head(node[s].recv_queue))]
    /\ node' = [node EXCEPT ![s].recv_queue = Tail(@)]
    /\ UNCHANGED <<wire, lock, tree, lastRes, topology, startTimer, inbox, sent, lost>>

\* A node has a step it takes without waiting: a start that is due, a frame
\* or message to handle, a timer that has run out.
Urgent(s) ==
    \/ s \in topology.present /\ ~Started(s) /\ startTimer[s] = 0
    \/ Started(s) /\ inbox[s] # <<>>
    \/ node[s].organize_queue # <<>>
    \/ node[s].tasks.searcher > 0 /\ node[s].search = 0
    \/ node[s].tasks.leader > 0 /\ node[s].pc = "idle" /\ node[s].tick = 0
    \/ node[s].tasks.leader > 0 /\ node[s].pc = "poll" /\ node[s].poll = 0

Dec(x) == IF x > 0 THEN x - 1 ELSE 0

\* Half a second passes: every running timer moves.  The executors run their
\* ready tasks before they sleep, so time passes only when no node has a step
\* to take.
Tick ==
    /\ \A s \in MeshNodes : ~Urgent(s)
    /\ startTimer' = [s \in MeshNodes |->
                        IF s \in topology.present /\ ~Started(s)
                        THEN Dec(startTimer[s]) ELSE startTimer[s]]
    /\ node' = [s \in MeshNodes |->
                  [node[s] EXCEPT
                     !.search = IF node[s].tasks.searcher > 0 THEN Dec(@) ELSE @,
                     !.tick = IF node[s].tasks.leader > 0 THEN Dec(@) ELSE @,
                     !.poll = IF node[s].pc = "poll" THEN Dec(@) ELSE @]]
    /\ UNCHANGED <<wire, lock, tree, lastRes, topology, inbox, sent, received, lost>>

\* The searcher, leader or follower task of node s takes a step.
RoleStep(s) ==
    \/ SearcherTimeout(s)
    \/ SearcherRecv(s)
    \/ LeaderRecv(s)
    \/ LeaderTick(s)
    \/ LeaderPollRecv(s)
    \/ LeaderPollTimeout(s)
    \/ FollowerRecv(s)

Next ==
    \/ \E s \in MeshNodes : Start(s)
    \/ \E s \in MeshNodes : RoleStep(s)
    \/ \E s \in MeshNodes : DispatcherStep(s)
    \/ \E s \in MeshNodes : AppReceive(s)
    \/ \E s \in MeshNodes, d \in Payloads, dest \in MeshNodes : AppSend(s, d, dest)
    \/ Tick

Spec == Init /\ [][Next]_vars

\* Every spawned task is polled when it is ready, the application keeps
\* calling receive, and time passes.
FairSpec ==
    /\ Spec
    /\ WF_vars(Tick)
    /\ \A s \in MeshNodes :
          /\ WF_vars(Start(s))
          /\ WF_vars(RoleStep(s))
          /\ WF_vars(DispatcherStep(s))
          /\ WF_vars(AppReceive(s))

\* ------------------------------------------------------ frames at a node
\* One node with a role, a tree and queues that are empty or full receives
\* from its link a frame that some peer has serialized.
Receiver == NodeB
\* Application payloads: empty, short, the longest that fits with a
\* final_source, one byte more, the longest that fits without, one byte more.
FramePayloads ==
    {<<>>, <<42>>} \cup
    {[i \in 1..n |-> i % 256] :
        n \in {MESSAGE_SIZE - Framing - Len(encode_node(NodeA)),
               MESSAGE_SIZE - Framing - Len(encode_node(NodeA)) + 1,
               MESSAGE_SIZE - Framing, MESSAGE_SIZE - Framing + 1}}
RssiValues == {-2147483647 - 1, -1, 255, 2147483647}
Peers == {NodeA, NodeC}
OptPeers == {None} \cup {Some(n) : n \in Peers}
Contents ==
    {Application(d) : d \in FramePayloads}
    \cup {Discovery, Invitation, RequestNews, FinSendNew}
    \cup {SendNew(n, r) : n \in Peers, r \in RssiValues}
    \cup {UpsertEdgeMsg(n, q) : n \in OptPeers, q \in OptPeers}
    \cup {RequestInitTopology(n) : n \in Peers}
WireMessages ==
    {SendMessage(fd, c, fs) :
        fd \in MeshNodes \cup {BROADCAST_NODE}, c \in Contents, fs \in OptPeers}

\* The tree of the receiver: bare for a searcher, both peers under the root
\* for a leader, one peer behind the other for a follower.
StarTree == upsert_edge(upsert_edge(TreeNew, None, NodeA).tree, None, NodeC).tree
ChainTree == upsert_edge(upsert_edge(TreeNew, None, NodeA).tree, Some(NodeA), NodeC).tree
ReceiverTree(role) ==
    IF role = "searcher" THEN TreeNew ELSE IF role = "leader" THEN StarTree ELSE ChainTree

\* A queue filled to its capacity with earlier messages.
EarlierMessage ==
    ReceiveMessage_new(serialize(SendMessage(Receiver, Invitation, None)).data,
                       Receiver, NodeA, 255).msg
FullOrganize == [i \in 1..ORGANIZE_QUEUE_SIZE |-> EarlierMessage]
FullRecv == [i \in 1..RECV_QUEUE_SIZE |-> [data |-> <<i>>, source |-> NodeA]]
FullLink ==
    [i \in 1..LINK_QUEUE_SIZE |->
        [data |-> serialize(SendMessage(Receiver, Invitation, None)).data,
         source |-> Receiver, destination |-> NodeA, rssi |-> 255]]

\* What can be wrong with the bytes of a frame: the last byte is missing, the
\* tag is 0x00, 0x09 or 0xFF, the option flag of the final_source is 2.
Damages == {"", "cut", "tag0", "tag9", "tag255", "flag2"}
\* The contents that are sent with a wrong tag or flag as well.
DamagedContents == {Discovery, Application(<<42>>), UpsertEdgeMsg(None, None)}
Damaged(data, w) ==
    LET flag == Len(data) - (IF w.msg.final_source = None THEN 0 ELSE Len(encode_node(NodeA)))
    IN CASE w.damage = "cut" -> SubSeq(data, 1, Len(data) - 1)
         [] w.damage = "tag0" -> [data EXCEPT ![1] = 0]
         [] w.damage = "tag9" -> [data EXCEPT ![1] = 9]
         [] w.damage = "tag255" -> [data EXCEPT ![1] = 255]
         [] w.damage = "flag2" -> [data EXCEPT ![flag] = 2]
         [] OTHER -> data

InitFrame ==
    /\ tree = TreeNew
    /\ lastRes = ""
    /\ topology = Line
    /\ startTimer = NoDelay
    /\ sent = <<>>
    /\ received = [m \in MeshNodes |-> <<>>]
    /\ lost = FALSE
    /\ lock = NoLock
    /\ \E role \in {"searcher", "leader", "follower"},
          full \in {"none", "organize", "recv", "link"} :
          /\ node = [m \in MeshNodes |->
                       IF m # Receiver THEN NodeInit
                       ELSE [NodeInit EXCEPT
                               !.tasks = [NoTasks EXCEPT !.dispatcher = 1, ![role] = 1],
                               !.tree = ReceiverTree(role),
                               !.search = SearchTimeout,
                               !.tick = TickPeriod,
                               !.organize_queue =
                                   IF full = "organize" THEN FullOrganize ELSE <<>>,
                               !.recv_queue = IF full = "recv" THEN FullRecv ELSE <<>>]]
          /\ inbox = [m \in MeshNodes |->
                        IF m # Receiver /\ full = "link" THEN FullLink ELSE <<>>]
    /\ \E m \in WireMessages, src \in Peers, dst \in {Receiver, BROADCAST_NODE},
          dmg \in Damages :
          /\ dmg \in {"", "cut"} \/ m.data \in DamagedContents
          /\ wire = [msg |-> m, source |-> src, destination |-> dst, rssi |-> 255,
                     cut |-> IF dmg = "cut" THEN 1 ELSE 0, damage |-> dmg, copies |-> 2]

\* The link of the receiver delivers the frame: the serialized message, or
\* its damaged bytes.
FrameArrive ==
    /\ wire.copies > 0
    /\ Len(inbox[Receiver]) < LINK_QUEUE_SIZE
    /\ \E ser \in {serialize(wire.msg)} :
          /\ ser.ok
          /\ inbox' = [inbox EXCEPT ![Receiver] =
                          Append(@, [data |-> Damaged(ser.data, wire),
                                     source |-> wire.source,
                                     destination |-> wire.destination,
                                     rssi |-> wire.rssi])]
    /\ wire' = [wire EXCEPT !.copies = @ - 1]
    /\ UNCHANGED <<lock, tree, lastRes, topology, startTimer, node, sent, received, lost>>

NextFrame ==
    \/ FrameArrive
    \/ \E s \in MeshNodes : DispatcherStep(s)
    \/ \E s \in MeshNodes : AppReceive(s)

SpecFrame == InitFrame /\ [][NextFrame]_vars

\* ----------------------------------------------------- the tree mutex
\* The tasks of one node as they take and drop the guard of the tree mutex:
\* each function is the sequence of its steps that matter for the mutex, a
\* task is a stack of (function, position) frames.
\*   await  - the task is suspended on a channel, the link or a timer
\*   lock   - tree.lock().await; `to` holds the step a surrounding select
\*            goes to when its other branch wins while the task waits
\*   unlock - the guard goes out of scope
\*   goto   - synchronous code that goes on at one of the steps `to`
\*   call, return - a call of another async fn, its return
\*   become - the task ends having spawned the task `fn`
Await(what) == [op |-> "await", to |-> {}, fn |-> what]
Lock == [op |-> "lock", to |-> {}, fn |-> ""]
LockInSelect(other) == [op |-> "lock", to |-> {other}, fn |-> ""]
Unlock == [op |-> "unlock", to |-> {}, fn |-> ""]
Goto(to) == [op |-> "goto", to |-> to, fn |-> ""]
Call(fn) == [op |-> "call", to |-> {}, fn |-> fn]
Return == [op |-> "return", to |-> {}, fn |-> ""]
Become(fn) == [op |-> "become", to |-> {}, fn |-> fn]

\* A send_content that keeps the guard until link.send has returned.
send_content_guard_kept ==
    <<Lock, Goto({3, 4}), Await("link.send"), Unlock, Return>>
\* Mesh::send_content: the guard is a temporary of the `let next` statement;
\* an error returns, otherwise link.send is awaited.
send_content_steps ==
    <<Lock, Unlock, Goto({4, 5}), Await("link.send"), Return>>
\* The application: Mesh::send or Mesh::receive, again and again.
mesh_calls_steps ==
    <<Goto({2, 4}), Call("send_content"), Goto({1}),
      Await("recv_queue.my_recv"), Goto({1})>>
\* A dispatcher that keeps the guard while it hands the frame to the link.
dispatcher_task_guard_kept ==
    <<Await("link.receive"), Goto({3, 6}), Lock, Await("link.send"), Unlock, Goto({1})>>
\* dispatcher_task: a frame to forward takes the guard for next_hop and drops
\* it before try_send; any other frame does not touch the tree.
dispatcher_task_steps ==
    <<Await("link.receive"), Goto({3, 5}), Lock, Unlock, Goto({1})>>
\* searcher_task with run_search_round and wait_for_invitation: the timer
\* wins (3), another message (1), a Discovery (5), an UpsertEdge (6); the
\* guard of the match lives to the end of the match, that of print! to the
\* end of the statement.
searcher_task_steps ==
    <<Await("select: after | organize_queue.my_recv"), Goto({1, 3, 5, 6}),
      Await("link.send"), Goto({1}),
      Become("leader_task"),
      LockInSelect(3), Unlock, LockInSelect(3), Unlock,
      Become("follower_task")>>
\* leader_task: a message (1) or the tick (3: process_news_round).
leader_task_steps ==
    <<Await("select: organize_queue.my_recv | ticker.next"), Goto({1, 3}),
      Call("collect_remote_news"), Call("send_topology_updates"), Goto({1})>>
\* collect_remote_news: snapshot under the guard, then per node a request
\* and the wait for the answers.
collect_remote_news_steps ==
    <<Lock, Unlock, Goto({4, 7}), Call("send_content"),
      Await("select: organize_queue.my_recv | after"), Goto({3, 5}), Return>>
\* send_topology_updates: per news entry a snapshot, the announcements, the
\* upsert_edge under the guard of the `if let` (9: Err and continue), the
\* print!, then send_initial_topology (15) or RequestInitTopology (17).
send_topology_updates_steps ==
    <<Goto({2, 19}), Lock, Unlock, Goto({5, 7}), Call("send_content"), Goto({4}),
      Lock, Goto({9, 11}), Unlock, Goto({1}),
      Unlock, Lock, Unlock, Goto({15, 17}),
      Call("send_initial_topology"), Goto({1}),
      Call("send_content"), Goto({1}), Return>>
\* send_initial_topology: the self edge, a snapshot, one edge per entry.
send_initial_topology_steps ==
    <<Call("send_content"), Lock, Unlock, Goto({5, 7}), Call("send_content"),
      Goto({4}), Return>>
\* follower_task: Discovery or another message (1), RequestNews (3),
\* UpsertEdge (8), RequestInitTopology (11).
follower_task_steps ==
    <<Await("organize_queue.my_recv"), Goto({1, 3, 8, 11}),
      Goto({4, 6}), Call("send_content"), Goto({3}), Call("send_content"), Goto({1}),
      Lock, Unlock, Goto({1}),
      Call("send_initial_topology"), Goto({1})>>

Steps(fn) ==
    CASE fn = "send_content" -> send_content_steps
      [] fn = "mesh_calls" -> mesh_calls_steps
      [] fn = "dispatcher_task" -> dispatcher_task_steps
      [] fn = "searcher_task" -> searcher_task_steps
      [] fn = "leader_task" -> leader_task_steps
      [] fn = "collect_remote_news" -> collect_remote_news_steps
      [] fn = "send_topology_updates" -> send_topology_updates_steps
      [] fn = "send_initial_topology" -> send_initial_topology_steps
      [] fn = "follower_task" -> follower_task_steps

\* The tasks that share the tree mutex of a node: the dispatcher, the role
\* task (searcher, then leader or follower) and the caller of Mesh.
LockTasks == {"dispatcher", "role", "app"}
Frame(fn, at) == [fn |-> fn, at |-> at]
Top(t) == Head(lock.stack[t])
Instr(t) == Steps(Top(t).fn)[Top(t).at]
Waiting(t) == \E i \in 1..Len(lock.waiters) : lock.waiters[i] = t
\* The stack of t with its top frame at step k.
At(t, k) == <<Frame(Top(t).fn, k)>> \o Tail(lock.stack[t])

InitLock ==
    /\ tree = TreeNew
    /\ lastRes = ""
    /\ topology = Single
    /\ startTimer = NoDelay
    /\ node = [m \in MeshNodes |-> NodeInit]
    /\ inbox = [m \in MeshNodes |-> <<>>]
    /\ sent = <<>>
    /\ received = [m \in MeshNodes |-> <<>>]
    /\ lost = FALSE
    /\ wire = NoWire
    /\ lock = [holder |-> "", waiters |-> <<>>,
               stack |-> [t \in LockTasks |->
                   <<Frame(IF t = "dispatcher" THEN "dispatcher_task"
                           ELSE IF t = "role" THEN "searcher_task" ELSE "mesh_calls", 1)>>]]

LockKeeps ==
    UNCHANGED <<wire, tree, lastRes, topology, startTimer, node, inbox, sent, received, lost>>

\* What task t awaits arrives.
Complete(t) ==
    /\ Instr(t).op = "await"
    /\ lock' = [lock EXCEPT !.stack[t] = At(t, Top(t).at + 1)]
    /\ LockKeeps
\* Synchronous code of task t.
Branch(t) ==
    /\ Instr(t).op = "goto"
    /\ \E k \in Instr(t).to : lock' = [lock EXCEPT !.stack[t] = At(t, k)]
    /\ LockKeeps
CallStep(t) ==
    /\ Instr(t).op = "call"
    /\ lock' = [lock EXCEPT !.stack[t] =
                   <<Frame(Instr(t).fn, 1)>> \o At(t, Top(t).at + 1)]
    /\ LockKeeps
ReturnStep(t) ==
    /\ Instr(t).op = "return"
    /\ lock' = [lock EXCEPT !.stack[t] = Tail(@)]
    /\ LockKeeps
BecomeStep(t) ==
    /\ Instr(t).op = "become"
    /\ lock' = [lock EXCEPT !.stack[t] = <<Frame(Instr(t).fn, 1)>>]
    /\ LockKeeps
\* tree.lock().await with the mutex free.
Acquire(t) ==
    /\ Instr(t).op = "lock"
    /\ lock.holder = "" /\ ~Waiting(t)
    /\ lock' = [lock EXCEPT !.holder = t, !.stack[t] = At(t, Top(t).at + 1)]
    /\ LockKeeps
\* tree.lock().await with the mutex taken: the task joins the waiters.
Enqueue(t) ==
    /\ Instr(t).op = "lock"
    /\ lock.holder # "" /\ ~Waiting(t)
    /\ lock' = [lock EXCEPT !.waiters = Append(@, t)]
    /\ LockKeeps
\* The other branch of the select wins while the task waits for the mutex.
Cancel(t) ==
    /\ Instr(t).op = "lock"
    /\ Waiting(t)
    /\ \E k \in Instr(t).to :
          lock' = [lock EXCEPT !.waiters = SelectSeq(@, LAMBDA w : w # t),
                               !.stack[t] = At(t, k)]
    /\ LockKeeps
\* The guard is dropped: the mutex goes to the first waiter, if any.
Release(t) ==
    /\ Instr(t).op = "unlock"
    /\ lock.holder = t
    /\ lock' =
          IF lock.waiters = <<>>
          THEN [lock EXCEPT !.holder = "", !.stack[t] = At(t, Top(t).at + 1)]
          ELSE LET w == Head(lock.waiters)
               IN [lock EXCEPT !.holder = w, !.waiters = Tail(@),
                               !.stack[t] = At(t, Top(t).at + 1),
                               !.stack[w] = At(w, Top(w).at + 1)]
    /\ LockKeeps

\* The steps a task takes without waiting for anything but the mutex.
Running(t) ==
    \/ Branch(t)
    \/ CallStep(t)
    \/ ReturnStep(t)
    \/ BecomeStep(t)
    \/ Acquire(t)
    \/ Enqueue(t)
    \/ Release(t)

NextLock ==
    \/ \E t \in LockTasks : Running(t)
    \/ \E t \in LockTasks : Complete(t)
    \/ \E t \in LockTasks : Cancel(t)

SpecLock == InitLock /\ [][NextLock]_vars
\* A task that is not suspended runs on.
FairSpecLock == SpecLock /\ \A t \in LockTasks : WF_vars(Running(t))

\* ------------------------------------------------------- claims: Tree
\* C6: after any sequence of upsert_edge calls, successful or failing, no two
\* leaves reachable from the root carry the same Node value.
C6_UniqueNodes ==
    \A n \in TreeNodes : Cardinality(Carriers(tree, n)) <= 1

\* A call has just failed, the arena is full, two nodes are in the tree and
\* one of them sits two levels below the root.
C6_Witness ==
    /\ lastRes = "NodeNotFoundError"
    /\ Len(tree.leafs.free) = 0
    /\ Cardinality({n \in TreeNodes : InTree(tree, n)}) >= 2
    /\ height(tree) >= 3

\* C7: after any sequence of upsert_edge calls, including upsert_edge(Some(X), X)
\* and upsert_edge(Some(D), A) with D in the subtree of A, the leaves reachable
\* from the root form a tree: each reachable leaf but the root is in exactly one
\* child list, exactly once, and no leaf is its own ancestor.
C7_IsTree == IsTree(tree)

\* The occupied slots that are not reachable from the root.
Detached(t) == {id \in SlotIds : t.leafs.slots[id].kind # "Empty"} \ Reach(t)

\* A leaf that still has a child has been detached: the outcome of
\* upsert_edge(Some(D), A) with D in the subtree of A.
C7_Witness ==
    /\ lastRes = "NodeNotFoundError"
    /\ \E id \in Detached(tree) :
          /\ Len(tree.leafs.slots[id].nexts) > 0
          /\ Cardinality(Reach(tree)) >= 2

\* C8: for every tree built by upsert_edge calls and every destination d,
\* next_hop(d) is the Foreign child of the root whose subtree holds d (d itself
\* when d is a direct child of the root), and NodeNotFoundError when no
\* reachable leaf carries d.
RootChildToward(t, d) ==
    {c \in Range(t.leafs.slots[t.root_id].nexts) :
        \E x \in Subtree(t, c) : t.leafs.slots[x].node = Some(d)}

C8_NextHop ==
    \A d \in TreeNodes :
        LET r == next_hop(tree, d)
            toward == RootChildToward(tree, d)
        IN IF InTree(tree, d)
           THEN /\ r.ok
                /\ \E c \in toward : r.node = tree.leafs.slots[c].node
                /\ Cardinality(toward) = 1
                /\ (Some(d) \in {tree.leafs.slots[c].node : c \in toward} => r.node = Some(d))
           ELSE r = Err("NodeNotFoundError")

\* A destination two levels below the root is routed through another node,
\* while some other node value is absent from the tree.
C8_Witness ==
    /\ \E d \in TreeNodes : next_hop(tree, d).ok /\ next_hop(tree, d).node # Some(d)
    /\ \E d \in TreeNodes : ~InTree(tree, d)
    /\ height(tree) >= 3

\* C9: a successful upsert_edge(from, to) with `to` already in the tree makes
\* `to` a child of `from`, keeps the SlotId of `to`, leaves the descendants of
\* `to` and their child lists unchanged, and leaves the parent of every other
\* leaf unchanged.  Stated of every call that can be made in a reachable tree.
ReparentPost(pre, post, from, to) ==
    LET id == CHOOSE x \in Carriers(pre, to) : TRUE
    IN /\ Carriers(post, to) = {id}
       /\ ParentNode(post, id) = from
       /\ Subtree(post, id) = Subtree(pre, id)
       /\ \A x \in Subtree(pre, id) : post.leafs.slots[x] = pre.leafs.slots[x]
       /\ Reach(post) = Reach(pre)
       /\ \A x \in Reach(pre) \ {id, pre.root_id} :
             /\ Parents(post, x) = Parents(pre, x)
             /\ post.leafs.slots[x].node = pre.leafs.slots[x].node

C9_Reparent ==
    \A from \in OptNodes, to \in TreeNodes :
        LET r == upsert_edge(tree, from, to)
        IN (InTree(tree, to) /\ r.res = "Ok") => ReparentPost(tree, r.tree, from, to)

\* A node with a child of its own is moved from one parent to another
\* Foreign leaf, and the call succeeds.
C9_Witness ==
    \E from \in OptNodes \ {None}, to \in TreeNodes :
        /\ InTree(tree, to)
        /\ \E id \in Carriers(tree, to) :
              /\ Len(tree.leafs.slots[id].nexts) > 0
              /\ ParentNode(tree, id) # from
        /\ upsert_edge(tree, from, to).res = "Ok"

\* C10 as stated: upsert_edge(Some(p), x) with no reachable leaf carrying p
\* returns NodeNotFoundError, and afterwards x is not reachable from the root.
C10_Original ==
    \A p \in TreeNodes, x \in TreeNodes :
        LET r == upsert_edge(tree, Some(p), x)
        IN ~InTree(tree, p)
              => /\ r.res = "NodeNotFoundError"
                 /\ next_hop(r.tree, x) = Err("NodeNotFoundError")

\* C10 amended: the call returns NodeNotFoundError, or LeafAllocationError when
\* x was not in the tree and the arena has no free slot; either way x is not
\* reachable afterwards, also when it was in the tree before the call.
C10_UnknownParent ==
    \A p \in TreeNodes, x \in TreeNodes :
        LET r == upsert_edge(tree, Some(p), x)
            full == ~InTree(tree, x) /\ Len(tree.leafs.free) = 0
        IN ~InTree(tree, p)
              => /\ r.res = (IF full THEN "LeafAllocationError" ELSE "NodeNotFoundError")
                 /\ next_hop(r.tree, x) = Err("NodeNotFoundError")
                 /\ ~InTree(r.tree, x)

\* A node that is in the tree, with a child, is detached by a call naming a
\* parent that is not in the tree.
C10_Witness ==
    \E p \in TreeNodes, x \in TreeNodes :
        /\ ~InTree(tree, p) /\ InTree(tree, x) /\ p # x
        /\ \E id \in Carriers(tree, x) : Len(tree.leafs.slots[id].nexts) > 0
        /\ upsert_edge(tree, Some(p), x).res = "NodeNotFoundError"
        /\ ~InTree(upsert_edge(tree, Some(p), x).tree, x)

\* C11: when every slot of the arena is taken (the tree holds MAX_LEAFS
\* leaves, root included), upsert_edge(from, to) for a node `to` that is not
\* in the tree returns LeafAllocationError and leaves the tree as it was, so
\* that every next_hop and height result is as before.
C11_FullArena ==
    \A from \in OptNodes, to \in TreeNodes :
        (Len(tree.leafs.free) = 0 /\ ~InTree(tree, to)) =>
            LET r == upsert_edge(tree, from, to)
            IN /\ r.res = "LeafAllocationError"
               /\ r.tree = tree
               /\ height(r.tree) = height(tree)
               /\ \A n \in TreeNodes : next_hop(r.tree, n) = next_hop(tree, n)

\* The tree holds MAX_LEAFS reachable leaves and a call names a node it does
\* not hold, under a parent it does hold.
C11_Witness ==
    /\ Len(tree.leafs.free) = 0
    /\ Cardinality(Reach(tree)) = MAX_LEAFS
    /\ height(tree) >= 3
    /\ \E p \in TreeNodes, to \in TreeNodes :
          /\ InTree(tree, p) /\ ~InTree(tree, to)
          /\ upsert_edge(tree, Some(p), to).res = "LeafAllocationError"

\* ------------------------------------------------------- claims: Mesh
IsPair == topology.present = Pair.present
IsLine == topology.present = Line.present
IsPrefix(a, b) == Len(a) <= Len(b) /\ SubSeq(b, 1, Len(a)) = a
\* The payloads of the Ok sends from s to r, and of what receive() has
\* returned at r with source s.
SentTo(s, r) ==
    LET e == SelectSeq(sent, LAMBDA x : x.src = s /\ x.dst = r)
    IN [i \in 1..Len(e) |-> e[i].data]
RecvFrom(r, s) ==
    LET e == SelectSeq(received[r], LAMBDA x : x.source = s)
    IN [i \in 1..Len(e) |-> e[i].data]
OrderedPairs == {<<NodeA, NodeB>>, <<NodeB, NodeA>>}

\* C1: in a two-node mesh where no frame is dropped, whenever a node s calls
\* Mesh.send(d, r) for the other node r and it returns Ok (as it does once the
\* election has completed), receive() at r eventually returns exactly (d, s):
\* at all times what r has received from s is, in order, the beginning of
\* what s has sent to r, every (payload, source) that receive() has returned
\* is one that the source sent to r, and again and again r has received all.
Delivered ==
    \A sr \in OrderedPairs : RecvFrom(sr[2], sr[1]) = SentTo(sr[1], sr[2])
InOrder ==
    \A sr \in OrderedPairs :
        /\ IsPrefix(RecvFrom(sr[2], sr[1]), SentTo(sr[1], sr[2]))
        /\ \A i \in 1..Len(received[sr[2]]) :
              \E j \in 1..Len(sent) :
                  /\ sent[j].src = received[sr[2]][i].source
                  /\ sent[j].dst = sr[2]
                  /\ sent[j].data = received[sr[2]][i].data
C1_Delivery ==
    /\ [](IsPair /\ ~lost => InOrder)
    /\ []<>(IsPair /\ ~lost => Delivered)

\* After the election, the follower has sent a payload to the leader and the
\* leader one to the follower, and both have been received.
C1_Witness ==
    /\ IsPair /\ Elected /\ ~lost
    /\ Len(sent) >= 2
    /\ \A i \in 1..Len(sent) : sent[i].elected
    /\ \A sr \in OrderedPairs :
          /\ SentTo(sr[1], sr[2]) # <<>>
          /\ RecvFrom(sr[2], sr[1]) = SentTo(sr[1], sr[2])

\* C2: two connected nodes, one started before the other, both unassigned at
\* first: eventually one is leader and the other follower, and the follower's
\* tree has the leader as a direct child of its root.
C2_Election ==
    (IsPair /\ topology.staggered) => <>Elected

\* One node started before the other and the election has completed.
C2_Witness ==
    /\ IsPair
    /\ topology.staggered
    /\ Elected

\* C3 as stated: on any node, in any reachable state and role,
\* Mesh.send(payload, own_node) returns the tree error RootIsDestination and
\* hands no frame to the link.
C3_Original ==
    \A s \in MeshNodes, d \in Payloads :
        Started(s) =>
            LET r == send_content(node[s].tree, Application(d), s)
            IN r.res = "RootIsDestinationError" /\ r.frames = <<>>

\* C4 as stated: three nodes in a line A-B-C, started one after another: eventually the tree of the
\* leader has a root-to-leaf path of three leaves and next_hop(C) at the
\* leader is B.
C4_Original ==
    (IsLine /\ topology.staggered) =>
        <>(\E l \in MeshNodes :
              /\ Role(l) = "leader"
              /\ height(node[l].tree) >= 3
              /\ next_hop(node[l].tree, NodeC) = Ok(NodeB))

\* Payloads of every length around the largest that fits one frame, up to the
\* capacity of MessageData.
LongPayloads ==
    {[i \in 1..n |-> i % 256] : n \in (MESSAGE_SIZE - Framing - 1)..MESSAGE_SIZE}

\* C12 as stated: Mesh.send with a payload longer than MESSAGE_SIZE minus the
\* framing bytes returns a MessageTooLarge error and hands no frame to the link.
C12_Original ==
    \A s \in MeshNodes, d \in LongPayloads, dest \in MeshNodes :
        (Started(s) /\ Len(d) > MESSAGE_SIZE - Framing) =>
            LET r == send_content(node[s].tree, Application(d), dest)
            IN r.cause = "MessageTooLargeError" /\ r.frames = <<>>

\* C5: every node starts unassigned and leaves unassigned at most once, to
\* leader or to follower, and keeps that role; it never runs a leader task
\* and a follower task, two of either, or a searcher beside a role task.
TasksOk(s) ==
    LET t == node[s].tasks
    IN /\ t.searcher + t.leader + t.follower = (IF Started(s) THEN 1 ELSE 0)
       /\ t.dispatcher <= 1
RoleKept(s) ==
    /\ Role(s) # "unassigned" => Role(s)' = Role(s)
    /\ ~Started(s) => Role(s) = "unassigned"
C5_RoleOnce ==
    /\ [](\A s \in MeshNodes : TasksOk(s))
    /\ [][\A s \in MeshNodes : RoleKept(s)]_vars

\* One node is leader, another follower, and both have gone on handling
\* messages in their roles.
C5_Witness ==
    \E l \in MeshNodes, f \in MeshNodes :
        /\ Role(l) = "leader" /\ Role(f) = "follower"
        /\ node[l].pc = "poll"
        /\ node[f].tree.leafs.slots[node[f].tree.root_id].nexts # <<>>
        /\ \E u \in MeshNodes : Started(u) /\ Role(u) = "unassigned"

\* ----------------------------------------------------- claims: frames
\* The message the link delivers to the receiver, as the receiver parses it.
WireFrame == serialize(wire.msg)
WireParsed ==
    ReceiveMessage_new(WireFrame.data, wire.destination, wire.source, wire.rssi)

\* C13: for every SendMessage (every content variant, any final_destination,
\* final_source None or Some) whose serialization succeeds, ReceiveMessage::new
\* of the serialized bytes succeeds with the same content and the same
\* final_destination, and with final_source equal to the sent final_source
\* when it is Some and to the link source when it is None.
C13_RoundTrip ==
    WireFrame.ok =>
        /\ WireParsed.ok
        /\ WireParsed.msg.data = wire.msg.data
        /\ WireParsed.msg.final_destination = wire.msg.final_destination
        /\ WireParsed.msg.final_source =
              IF wire.msg.final_source = None THEN wire.source
              ELSE Unwrap(wire.msg.final_source)

\* A SendNew with a negative rssi and no final_source has been delivered whole
\* and stands in organize_queue with its content and the link source.
C13_Witness ==
    /\ wire.cut = 0 /\ wire.copies < 2
    /\ wire.msg.final_source = None
    /\ \E i \in 1..Len(node[Receiver].organize_queue) :
          LET m == node[Receiver].organize_queue[i]
          IN /\ m.data.type = "SendNew" /\ m.data.rssi < -255
             /\ m.data = wire.msg.data
             /\ m.final_source = wire.source

\* The frame the dispatcher of s takes from its link next, as it parses it,
\* and the frame the dispatcher hands to link.try_send on it (if any).
HeadParsed(s) ==
    LET f == Head(inbox[s])
    IN ReceiveMessage_new(f.data, f.destination, f.source, f.rssi)
Handed(s) == dispatcher(node[s], Head(inbox[s])).forward
\* The head frame parses, is for another node and is not a Discovery.
ToForward(s) ==
    /\ Started(s) /\ inbox[s] # <<>>
    /\ HeadParsed(s).ok
    /\ HeadParsed(s).msg.final_destination # Head(inbox[s]).destination
    /\ HeadParsed(s).msg.data.type # "Discovery"
\* The frame handed to the link goes to `hop` and carries message m.
HandedOn(s, hop, m) ==
    /\ Len(Handed(s)) = 1
    /\ Handed(s)[1].to = hop
    /\ LET rm == ReceiveMessage_new(Handed(s)[1].data, hop, s, 255)
       IN /\ rm.ok
          /\ rm.msg.data = m.data
          /\ rm.msg.final_destination = m.final_destination
          /\ rm.msg.final_source = m.final_source
QueuesKept(s) ==
    /\ node'[s].organize_queue = node[s].organize_queue
    /\ node'[s].recv_queue = node[s].recv_queue

\* C14: a frame the dispatcher receives whose final_destination differs from
\* the link destination and whose tag is not Discovery is never enqueued on
\* organize_queue or recv_queue; if next_hop(final_destination) succeeds, the
\* dispatcher hands it to the link for that next hop with content and
\* final_destination unchanged and the original sender as final_source.
ForwardStep(s) ==
    (ToForward(s) /\ DispatcherStep(s)) =>
        /\ QueuesKept(s)
        /\ LET m == HeadParsed(s).msg
               next == next_hop(node[s].tree, m.final_destination)
           IN next.ok => HandedOn(s, Unwrap(next.node), m)
C14_Original == [][\A s \in MeshNodes : ForwardStep(s)]_vars

\* The head frame parses and is not one to forward: it is for this node, or
\* it is a Discovery.
ToKeep(s) ==
    /\ Started(s) /\ inbox[s] # <<>>
    /\ HeadParsed(s).ok
    /\ \/ HeadParsed(s).msg.final_destination = Head(inbox[s]).destination
       \/ HeadParsed(s).msg.data.type = "Discovery"
\* No link channel but that of s changes.
NothingSent(s) == \A m \in MeshNodes \ {s} : inbox'[m] = inbox[m]

\* C15: a frame that is not forwarded (its final_destination is the link
\* destination, or it is a Discovery) goes to organize_queue and never to
\* recv_queue when it is an organization variant (any tag but Application), and
\* to recv_queue as (d, final_source) and never to organize_queue when it is
\* Application(d); a Discovery is never forwarded, whatever its
\* final_destination.  (The enqueue is a try_send: it adds the item when the
\* queue has room.)
KeepStep(s) ==
    (ToKeep(s) /\ DispatcherStep(s)) =>
        LET m == HeadParsed(s).msg
            st == node[s]
        IN /\ Handed(s) = <<>> /\ NothingSent(s)
           /\ m.data.type # "Application" =>
                 /\ node'[s].recv_queue = st.recv_queue
                 /\ Len(st.organize_queue) < ORGANIZE_QUEUE_SIZE =>
                       node'[s].organize_queue = Append(st.organize_queue, m)
           /\ m.data.type = "Application" =>
                 /\ node'[s].organize_queue = st.organize_queue
                 /\ Len(st.recv_queue) < RECV_QUEUE_SIZE =>
                       node'[s].recv_queue =
                           Append(st.recv_queue,
                                  [data |-> m.data.data, source |-> m.final_source])
C15_Routing == [][\A s \in MeshNodes : KeepStep(s)]_vars

\* An Application frame relayed by one peer for the other stands in
\* recv_queue with its payload and the original sender, and organize_queue is
\* empty.
C15_Witness ==
    /\ wire.cut = 0 /\ wire.copies < 2
    /\ wire.msg.data.type = "Application" /\ wire.msg.data.data # <<>>
    /\ wire.msg.final_source # None
    /\ Unwrap(wire.msg.final_source) # wire.source
    /\ node[Receiver].organize_queue = <<>>
    /\ node[Receiver].recv_queue =
          <<[data |-> wire.msg.data.data, source |-> Unwrap(wire.msg.final_source)]>>

\* organize_queue and recv_queue within their capacity.
QueueBound ==
    \A s \in MeshNodes :
        /\ Len(node[s].organize_queue) <= ORGANIZE_QUEUE_SIZE
        /\ Len(node[s].recv_queue) <= RECV_QUEUE_SIZE
\* A dispatcher with a frame to handle can handle it, whatever the queues hold.
NoBlock ==
    \A s \in MeshNodes : (Started(s) /\ inbox[s] # <<>>) => ENABLED DispatcherStep(s)
\* The dispatcher handles a frame whose target queue is full: the queue stays
\* as it is, and the frame is gone from the link, the next one at the head.
DropStep(s) ==
    (DispatcherStep(s) /\ HeadParsed(s).ok) =>
        LET m == HeadParsed(s).msg
            st == node[s]
        IN /\ inbox'[s] = Tail(inbox[s])
           /\ (ToKeep(s) /\ m.data.type # "Application"
                  /\ Len(st.organize_queue) = ORGANIZE_QUEUE_SIZE) =>
                 node'[s] = st
           /\ (ToKeep(s) /\ m.data.type = "Application"
                  /\ Len(st.recv_queue) = RECV_QUEUE_SIZE) =>
                 node'[s] = st
           /\ (ToForward(s) /\ Handed(s) # <<>>) =>
                 \A hop \in MeshNodes \ {s} :
                     Len(inbox[hop]) = LINK_QUEUE_SIZE => inbox'[hop] = inbox[hop]

\* C16: organize_queue and recv_queue never hold more than their capacity (16
\* in the code, ORGANIZE_QUEUE_SIZE and RECV_QUEUE_SIZE here); when the queue a
\* frame is for, or the link queue when it is forwarded, is full, the
\* dispatcher drops the frame and leaves the queue as it is, it is not blocked,
\* and it goes on to the next frame from the link.
C16_BoundedQueues ==
    /\ [](QueueBound /\ NoBlock)
    /\ [][\A s \in MeshNodes : DropStep(s)]_vars

\* Two frames for this node arrived while organize_queue was full: both are
\* gone from the link and the queue still holds what it held.
C16_Witness ==
    /\ wire.copies = 0 /\ wire.cut = 0
    /\ wire.msg.final_destination = wire.destination
    /\ wire.msg.data.type = "RequestNews"
    /\ inbox[Receiver] = <<>>
    /\ lost
    /\ node[Receiver].organize_queue = FullOrganize

\* ------------------------------------------------------ claims: order
RECURSIVE IsSubseq(_, _)
IsSubseq(a, b) ==
    IF a = <<>> THEN TRUE
    ELSE IF b = <<>> THEN FALSE
    ELSE IF Head(a) = Head(b) THEN IsSubseq(Tail(a), Tail(b))
    ELSE IsSubseq(a, Tail(b))
\* What receive() has returned at r with source s is, in the order of the
\* sends, part of what s has sent to r.
OrderKept ==
    \A s \in MeshNodes, r \in MeshNodes :
        s # r => IsSubseq(RecvFrom(r, s), SentTo(s, r))
\* q2 is q, q without its head, or q with one item more at its end.
FifoChange(q, q2) ==
    \/ q2 = q
    \/ q # <<>> /\ q2 = Tail(q)
    \/ Len(q2) = Len(q) + 1 /\ SubSeq(q2, 1, Len(q)) = q
\* q2 is q, with or without its head, with any number of items more at its end.
ChannelChange(q, q2) ==
    \E k \in 0..1 :
        /\ Len(q) >= k
        /\ Len(q2) >= Len(q) - k
        /\ SubSeq(q2, 1, Len(q) - k) = SubSeq(q, k + 1, Len(q))
\* The queues and the link channel of s change as FIFO queues, and what the
\* dispatcher adds to a queue is the frame at the head of the link channel.
FifoStep(s) ==
    /\ FifoChange(node[s].organize_queue, node'[s].organize_queue)
    /\ FifoChange(node[s].recv_queue, node'[s].recv_queue)
    /\ ChannelChange(inbox[s], inbox'[s])
    /\ DispatcherStep(s) =>
          /\ Len(node'[s].organize_queue) > Len(node[s].organize_queue) =>
                node'[s].organize_queue = Append(node[s].organize_queue, HeadParsed(s).msg)
          /\ Len(node'[s].recv_queue) > Len(node[s].recv_queue) =>
                node'[s].recv_queue =
                    Append(node[s].recv_queue,
                           [data |-> HeadParsed(s).msg.data.data,
                            source |-> HeadParsed(s).msg.final_source])

\* C17: when a node sends payloads d1 and then d2 to the same destination and
\* both are delivered, receive() at the destination returns d1 before d2; the
\* dispatcher puts frames on organize_queue and recv_queue in the order in
\* which the link delivered them.
C17_Fifo ==
    /\ []OrderKept
    /\ [][\A s \in MeshNodes : FifoStep(s)]_vars

\* Two different payloads that A has sent to B stand in B's recv_queue in the
\* order of the sends.
C17_Witness ==
    /\ Len(SentTo(NodeA, NodeB)) = 2
    /\ SentTo(NodeA, NodeB)[1] # SentTo(NodeA, NodeB)[2]
    /\ node[NodeB].recv_queue =
          <<[data |-> SentTo(NodeA, NodeB)[1], source |-> NodeA],
            [data |-> SentTo(NodeA, NodeB)[2], source |-> NodeA]>>

\* ---------------------------------------------------- claims: one node
IsSingle == topology.present = Single.present
\* The node has no role and its tree is the bare root.
AloneUnassigned ==
    /\ Role(NodeA) = "unassigned"
    /\ node[NodeA].tasks.leader = 0 /\ node[NodeA].tasks.follower = 0
    /\ height(node[NodeA].tree) = 1
    /\ tree_iter(node[NodeA].tree) = <<>>

\* C19: a node with no peer in range stays unassigned for ever, its tree stays
\* the bare root (height 1), and again and again a search round times out and
\* the node broadcasts a Discovery.
C19_Alone ==
    /\ [](IsSingle => AloneUnassigned)
    /\ IsSingle => []<><<SearcherTimeout(NodeA)>>_vars

\* The only node has broadcast a Discovery that no peer received and is in
\* its next search round, unassigned, its tree the bare root.
C19_Witness ==
    /\ IsSingle /\ Started(NodeA)
    /\ lost
    /\ node[NodeA].tasks.searcher = 1
    /\ node[NodeA].search = SearchTimeout
    /\ Role(NodeA) = "unassigned"
    /\ height(node[NodeA].tree) = 1

\* ------------------------------------------- claims: unknown destination
\* An AppSend step of s for a destination that is not in the tree of s.
UnknownSend(s, d, dest) ==
    AppSend(s, d, dest) /\ ~InTree(node[s].tree, dest)

\* C20: Mesh.send(data, dst) with dst not in the sender's tree returns the
\* tree error NodeNotFound, hands no frame to the link, and changes neither
\* the tree nor any queue.
C20_UnknownDestination ==
    /\ [](\A s \in MeshNodes, d \in Payloads, dest \in MeshNodes :
             (Started(s) /\ ~InTree(node[s].tree, dest)) =>
                 LET r == send_content(node[s].tree, Application(d), dest)
                 IN /\ r.res = "NodeNotFoundError" /\ r.cause = "TreeError"
                    /\ r.frames = <<>>
                    /\ link_send(inbox, s, r.frames) = inbox)
    /\ [][\A s \in MeshNodes, d \in Payloads, dest \in MeshNodes :
             UnknownSend(s, d, dest) => UNCHANGED <<node, inbox, sent, received, lost>>]_vars

\* A follower or leader whose tree holds a peer is asked to send to a node
\* that its tree does not hold.
C20_Witness ==
    \E s \in MeshNodes, dest \in MeshNodes :
        /\ Started(s) /\ Role(s) # "unassigned"
        /\ height(node[s].tree) >= 2
        /\ dest # s
        /\ ~InTree(node[s].tree, dest)
        /\ Len(sent) < topology.sends
        /\ send_content(node[s].tree, Application(<<42>>), dest).res = "NodeNotFoundError"

\* ----------------------------------------------------- claims: mutex
\* No task that holds the guard is suspended: not on a channel, the link or
\* a timer, and not on the mutex itself.
NoAwaitHolding ==
    \A t \in LockTasks : lock.holder = t => Instr(t).op \notin {"await", "lock"}

\* C18: no task (dispatcher, searcher, leader, follower, caller of Mesh.send)
\* is ever suspended at an await on a channel, the link or a timer while it
\* holds the tree mutex; hence no task waits for ever for the tree mutex.
C18_NoAwaitUnderLock ==
    /\ []NoAwaitHolding
    /\ \A t \in LockTasks : Waiting(t) ~> ~Waiting(t)

\* The leader holds the guard inside a send_content of send_initial_topology
\* while the dispatcher and the application wait for the mutex.
C18_Witness ==
    /\ lock.holder = "role"
    /\ Len(lock.waiters) = 2
    /\ Top("role").fn = "send_content"
    /\ Len(lock.stack["role"]) = 4

\* ------------------------------------------------ claims: decode errors
\* The bytes that are no message tag.
InvalidTags == {0} \cup 9..255
\* The dispatcher drops the head frame: the node is as before, no link
\* channel but its own changes, the frame is gone and the next one is at the
\* head.
DropsHead(s) ==
    /\ node'[s] = node[s]
    /\ NothingSent(s)
    /\ inbox'[s] = Tail(inbox[s])

\* C22: a received frame that fails to decode (tag 0x00 or 0x09..0xFF, a
\* truncated body, an option flag other than 0 and 1) is dropped: nothing is
\* put on organize_queue or recv_queue, nothing is forwarded, the tree is
\* unchanged, and the dispatcher goes on with the following frames.
C22_DecodeError ==
    /\ [](/\ (wire.damage = "tag0" /\ inbox[Receiver] # <<>>) =>
                \A b \in 0..255 : (MessageTypeFrom(b) = None) <=> (b \in InvalidTags)
          /\ \A s \in MeshNodes : \A i \in 1..Len(inbox[s]) :
                (s = Receiver /\ (wire.damage # "" \/ Len(inbox[s][i].data) = 0)) =>
                    ~ReceiveMessage_new(inbox[s][i].data, inbox[s][i].destination,
                                        inbox[s][i].source, inbox[s][i].rssi).ok
          /\ \A s \in MeshNodes :
                (Started(s) /\ inbox[s] # <<>>) => ENABLED DispatcherStep(s))
    /\ [][\A s \in MeshNodes :
             (DispatcherStep(s) /\ ~HeadParsed(s).ok) => DropsHead(s)]_vars

\* Two frames with the option flag 2 have arrived at a node with room in
\* its queues: both are gone, the queues are empty.
C22_Witness ==
    /\ wire.damage = "flag2" /\ wire.copies = 0
    /\ wire.msg.final_destination = wire.destination
    /\ inbox[Receiver] = <<>>
    /\ lost
    /\ node[Receiver].organize_queue = <<>>
    /\ node[Receiver].recv_queue = <<>>

\* ------------------------------------------------- claims: own identifier
\* The leaves of t that can be reached from the root and are Own leaves.
OwnLeaves(t) == {id \in Reach(t) : t.leafs.slots[id].kind = "Own"}

\* C23: in every reachable state of a mesh run no Foreign leaf of a node's
\* tree carries the identifier of that node; the node is the Own root, which
\* is the only Own leaf.
C23_Original ==
    \A s \in MeshNodes :
        /\ ~InTree(node[s].tree, s)
        /\ OwnLeaves(node[s].tree) = {node[s].tree.root_id}

\* ------------------------------------------------------- one role task
\* One node with a role, a tree and a news list, and one frame on its way to
\* it: the role task, the dispatcher and the timers of that node run until the
\* horizon.
RoleHorizon == 4
NewsEntry(n, r) == [node |-> n, rssi |-> r]
\* The news lists of a leader or follower: empty, one entry, two entries for
\* the same node with the rssi rising or falling, and a full list.
RoleNews ==
    {<<>>, <<NewsEntry(NodeA, 255)>>,
     <<NewsEntry(NodeA, -1), NewsEntry(NodeA, 255)>>,
     <<NewsEntry(NodeA, 255), NewsEntry(NodeA, -1)>>,
     <<NewsEntry(NodeC, -1), NewsEntry(NodeA, 255)>>}
OptNodes3 == {None} \cup {Some(n) : n \in MeshNodes}
RoleContents ==
    {Application(<<42>>), Discovery, Invitation, RequestNews, FinSendNew}
    \cup {SendNew(n, r) : n \in Peers, r \in RssiValues}
    \cup {UpsertEdgeMsg(n, q) : n \in OptNodes3, q \in OptNodes3}
    \cup {RequestInitTopology(n) : n \in Peers}
RoleMessages ==
    {SendMessage(fd, c, fs) :
        fd \in {Receiver, BROADCAST_NODE}, c \in RoleContents, fs \in OptPeers}
\* The tree of a leader with one follower.
NearTree == upsert_edge(TreeNew, None, NodeA).tree
RoleTrees(role) ==
    IF role = "leader" THEN {StarTree, NearTree} ELSE {ReceiverTree(role)}

InitRole ==
    /\ tree = TreeNew
    /\ lastRes = ""
    /\ topology = Line
    /\ startTimer = [m \in MeshNodes |-> IF m = Receiver THEN 0 ELSE RoleHorizon]
    /\ sent = <<>>
    /\ received = [m \in MeshNodes |-> <<>>]
    /\ lost = FALSE
    /\ lock = NoLock
    /\ inbox = [m \in MeshNodes |-> <<>>]
    /\ \E role \in {"searcher", "leader", "follower"} :
       \E t \in RoleTrees(role), nw \in RoleNews :
          /\ role = "searcher" => nw = <<>>
          /\ node = [m \in MeshNodes |->
                       IF m # Receiver THEN NodeInit
                       ELSE [NodeInit EXCEPT
                               !.tasks = [NoTasks EXCEPT !.dispatcher = 1, ![role] = 1],
                               !.tree = t,
                               !.news = nw,
                               !.search = 1,
                               !.tick = 1]]
    /\ \E m \in RoleMessages, src \in Peers, r \in {-1, 255} :
          /\ r = 255 \/ m.data = Discovery
          /\ wire = [msg |-> m, source |-> src, destination |-> Receiver, rssi |-> r,
                     cut |-> 0, damage |-> "", copies |-> 1]

NextRole ==
    \/ FrameArrive
    \/ \E s \in MeshNodes : RoleStep(s)
    \/ \E s \in MeshNodes : DispatcherStep(s)
    \/ \E s \in MeshNodes : AppReceive(s)
    \/ Tick

SpecRole == InitRole /\ [][NextRole]_vars

\* ------------------------------------------------- claims: unassigned node
Ignored == {"Invitation", "RequestNews", "SendNew", "FinSendNew", "RequestInitTopology"}
SearcherStep(s) ==
    LET m == Head(node[s].organize_queue)
        up == upsert_edge(node[s].tree, edge_parent(m), edge_new(m))
    IN /\ node'[s].organize_queue = Tail(node[s].organize_queue)
       /\ m.data.type \in Ignored =>
             /\ Role(s)' = "unassigned"
             /\ node'[s].tree = node[s].tree
       /\ m.data.type = "Discovery" =>
             /\ Role(s)' = "leader"
             /\ node'[s].tree = node[s].tree
       /\ m.data.type = "UpsertEdge" =>
             /\ Role(s)' = "follower"
             /\ node'[s].tree = up.tree
             /\ up.res = "Ok" => InTree(up.tree, edge_new(m))
NamedParent(s, m) ==
    IF m.data.p = None THEN Some(m.final_source)
    ELSE IF m.data.p = Some(s) THEN None
    ELSE m.data.p
NamedChild(m) == IF m.data.n = None THEN m.final_source ELSE Unwrap(m.data.n)
EdgeStep(s) ==
    LET m == Head(node[s].organize_queue)
    IN m.data.type = "UpsertEdge" =>
          node'[s].tree = upsert_edge(node[s].tree, NamedParent(s, m), NamedChild(m)).tree
\* C25: on UpsertEdge((n, p)) a follower calls upsert_edge(parent, child)
\* with parent the sender (final_source) when p is None, the root when p is
\* the node's own identifier and p otherwise, and child the sender when n is
\* None and n otherwise; a searcher applies the same mapping.
C25_EdgeMapping ==
    [][\A s \in MeshNodes : (FollowerRecv(s) \/ SearcherRecv(s)) => EdgeStep(s)]_vars
C25_Witness ==
    /\ Role(Receiver) = "follower"
    /\ wire.msg.data = UpsertEdgeMsg(None, Some(Receiver))
    /\ wire.msg.final_source = Some(NodeC)
    /\ wire.source = NodeA
    /\ wire.copies = 0
    /\ inbox[Receiver] = <<>>
    /\ node[Receiver].organize_queue = <<>>
    /\ RootChildren(node[Receiver].tree) = {NodeA, NodeC}

\* ------------------------------------------------- claims: RequestNews
\* The frames node h gets in this step, as the messages they parse to.
Arrived(h) ==
    [i \in 1..(Len(inbox'[h]) - Len(inbox[h])) |->
        LET f == inbox'[h][Len(inbox[h]) + i]
        IN ReceiveMessage_new(f.data, f.destination, f.source, f.rssi).msg]
\* The answer to RequestNews that the claim names.
NewsAnswer(news) ==
    [i \in 1..(Len(news) + 1) |->
        IF i <= Len(news) THEN SendNew(news[i].node, news[i].rssi) ELSE FinSendNew]
AnswerStep(s) ==
    LET m == Head(node[s].organize_queue)
    IN m.data.type = "RequestNews" =>
          /\ node'[s].news = node[s].news
          /\ \E h \in MeshNodes :
                /\ [i \in 1..Len(Arrived(h)) |-> Arrived(h)[i].data] = NewsAnswer(node[s].news)
                /\ \A i \in 1..Len(Arrived(h)) :
                      /\ Arrived(h)[i].final_destination = m.final_source
                      /\ Arrived(h)[i].final_source = s
                /\ \A o \in MeshNodes \ {h} : inbox'[o] = inbox[o]
\* C26: on RequestNews from r a follower sends toward r one SendNew per entry
\* of its news list, in list order, then exactly one FinSendNew, and its news
\* list stays as it was.
C26_NewsAnswer ==
    [][\A s \in MeshNodes : FollowerRecv(s) => AnswerStep(s)]_vars
C26_Witness ==
    /\ Role(Receiver) = "follower"
    /\ wire.msg.data = RequestNews
    /\ wire.msg.final_source = Some(NodeC)
    /\ wire.copies = 0
    /\ node[Receiver].organize_queue = <<>>
    /\ node[Receiver].news = <<NewsEntry(NodeC, -1), NewsEntry(NodeA, 255)>>
    /\ Len(inbox[NodeA]) = 3

\* ------------------------------------------------- claims: news list
FullNews(s) == Len(node[s].news) = MAX_NEWS
\* A Discovery taken by the leader or follower of s while its list is full.
FullStep(s) ==
    (/\ LeaderRecv(s) \/ FollowerRecv(s)
     /\ Head(node[s].organize_queue).data.type = "Discovery"
     /\ FullNews(s))
    => /\ node'[s].news = node[s].news
       /\ node'[s].organize_queue = Tail(node[s].organize_queue)
\* The step of the leader of s that ends a news round.
RoundEnd(s) ==
    /\ LeaderTick(s) \/ LeaderPollRecv(s) \/ LeaderPollTimeout(s)
    /\ node'[s].pc = "idle"
\* C27: the news list of a leader or follower never holds more than MAX_NEWS
\* entries, a Discovery heard while the list is full is dropped and leaves the
\* list unchanged, and the leader's list is empty right after each news round.
C27_NewsBound ==
    /\ [](\A s \in MeshNodes : Len(node[s].news) <= MAX_NEWS)
    /\ [][\A s \in MeshNodes : FullStep(s)]_vars
    /\ [][\A s \in MeshNodes : RoundEnd(s) => node'[s].news = <<>>]_vars
C27_Witness ==
    /\ Role(Receiver) = "leader"
    /\ FullNews(Receiver)
    /\ wire.msg.data = Discovery
    /\ wire.copies = 0
    /\ inbox[Receiver] = <<>>
    /\ node[Receiver].organize_queue = <<>>
    /\ startTimer[NodeA] = RoleHorizon
C27_RoundWitness ==
    /\ Role(Receiver) = "leader"
    /\ node[Receiver].news = <<>>
    /\ node[Receiver].pc = "idle"
    /\ node[Receiver].tick = TickPeriod
    /\ wire.msg.data = Discovery
    /\ wire.copies = 0

\* ------------------------------------------------- claims: best rssi
Polling(s) == node[s].tasks.leader > 0 /\ node[s].pc = "poll"
\* Every entry of all_news is at least as strong as each of the leader's own
\* news entries for the same node.
OwnCovered(s) ==
    \A i \in 1..Len(node[s].all_news), j \in 1..Len(node[s].news) :
        node[s].news[j].node = node[s].all_news[i].node =>
            node[s].all_news[i].rssi >= node[s].news[j].rssi
\* A SendNew((n, r)) taken while polling leaves for n the higher of r and the
\* rssi recorded before, and replaces the entry only when r is strictly higher.
ResponseStep(s) ==
    LET m == Head(node[s].organize_queue)
        n == Unwrap(m.data.n)
        old == NewsIndex(node[s].all_news, n)
        new == NewsIndex(node'[s].all_news, n)
    IN (m.data.type = "SendNew" /\ old # {}) =>
          \E i \in old :
             /\ new = {i}
             /\ node'[s].all_news[i].rssi =
                   IF m.data.rssi > node[s].all_news[i].rssi
                   THEN m.data.rssi ELSE node[s].all_news[i].rssi
             /\ m.data.rssi <= node[s].all_news[i].rssi =>
                   node'[s].all_news[i] = node[s].all_news[i]
\* C28: in a news round the rssi recorded for a node in all_news is the
\* highest reported for it, over the leader's own news entries and the SendNew
\* responses, and the leader's own entry is kept unless a neighbor reported a
\* strictly higher rssi.
C28_Original ==
    /\ [](\A s \in MeshNodes : Polling(s) => OwnCovered(s))
    /\ [][\A s \in MeshNodes : LeaderPollRecv(s) => ResponseStep(s)]_vars
\* The part on the responses alone.
C28_Responses ==
    [][\A s \in MeshNodes : LeaderPollRecv(s) => ResponseStep(s)]_vars

\* ------------------------------------------------- claims: best parent
\* The entry of n in all_news after the step, where the step made or changed
\* it.
Recorded(s, n) ==
    {i \in NewsIndex(node'[s].all_news, n) :
        \/ NewsIndex(node[s].all_news, n) = {}
        \/ node'[s].all_news[i] # node[s].all_news[i]}
ParentStep(s) ==
    LET m == Head(node[s].organize_queue)
    IN m.data.type = "SendNew" =>
          \A i \in Recorded(s, Unwrap(m.data.n)) :
              node'[s].all_news[i].parent = Some(m.final_source)
\* C29: whenever the leader records a best_parent for a node from a SendNew,
\* it is the neighbor that sent that SendNew (its final_source), also when the
\* response arrives after the poll of that neighbor timed out and the leader
\* is polling another neighbor.
C29_Original ==
    [][\A s \in MeshNodes : LeaderPollRecv(s) => ParentStep(s)]_vars
\* A response of the neighbor polled first is recorded while the leader polls
\* the second one.
LateResponse ==
    /\ Polling(Receiver)
    /\ node[Receiver].tree = StarTree
    /\ Len(node[Receiver].poll_nodes) = 1
    /\ wire.msg.data.type = "SendNew"
    /\ wire.msg.final_source = None
    /\ wire.source # Head(node[Receiver].poll_nodes).node
    /\ wire.copies = 0
    /\ inbox[Receiver] = <<>>
    /\ node[Receiver].organize_queue = <<>>
    /\ \E i \in 1..Len(node[Receiver].all_news) :
          /\ node[Receiver].all_news[i].node = Unwrap(wire.msg.data.n)
          /\ node[Receiver].all_news[i].parent = Some(Head(node[Receiver].poll_nodes).node)

\* ------------------------------------------------- claims: topology updates
Known(t) == {x \in MeshNodes : InTree(t, x)}
\* all_news at the end of the collection phase of the round that this step
\* of the leader of s ends.
EndNews(s) ==
    IF Polling(s) THEN node[s].all_news ELSE collect_local_news(node[s].news, <<>>)
\* The frames for h that arrive at h in this step and name new in an
\* UpsertEdge.
Names(h, new) ==
    {i \in 1..Len(Arrived(h)) :
        /\ Arrived(h)[i].data.type = "UpsertEdge"
        /\ Arrived(h)[i].data.n = Some(new)
        /\ Arrived(h)[i].final_destination = h}
\* The self edge of the initial topology for new, among the frames of h.
SelfEdge(h, new) ==
    {i \in 1..Len(Arrived(h)) :
        /\ Arrived(h)[i].data = UpsertEdgeMsg(None, Some(new))
        /\ Arrived(h)[i].final_destination = new}
UpdateStep(s) ==
    \A k \in 1..Len(EndNews(s)) :
        LET e == EndNews(s)[k]
            known == Known(node[s].tree) \cup {EndNews(s)[j].node : j \in 1..(k - 1)}
        IN /\ e.node \in RootChildren(node'[s].tree)
           /\ \A x \in known : Names(x, e.node) # {}
           /\ e.parent = None =>
                 \E i \in SelfEdge(e.node, e.node) :
                    \A x \in known \cup {e.node} :
                       \E j \in Names(e.node, x) : j > i
           /\ e.parent # None =>
                 /\ SelfEdge(e.node, e.node) = {}
                 /\ \E i \in 1..Len(Arrived(Unwrap(e.parent))) :
                       /\ Arrived(Unwrap(e.parent))[i].data = RequestInitTopology(e.node)
                       /\ \E j \in Names(Unwrap(e.parent), e.node) : j < i
\* The initial topology a follower sends on RequestInitTopology(n).
TopologyStep(s) ==
    LET m == Head(node[s].organize_queue)
        n == Unwrap(m.data.n)
    IN (m.data.type = "RequestInitTopology" /\ InTree(node[s].tree, n)) =>
          \E h \in MeshNodes :
             /\ Len(Arrived(h)) = 1 + Cardinality(Known(node[s].tree))
             /\ Arrived(h)[1].data = UpsertEdgeMsg(None, Some(n))
             /\ \A i \in 1..Len(Arrived(h)) : Arrived(h)[i].final_destination = n
             /\ {Arrived(h)[i].data.n : i \in 2..Len(Arrived(h))} =
                   {Some(x) : x \in Known(node[s].tree)}
\* C30: for each new node of all_news the leader sends an UpsertEdge naming
\* it toward every node already in its tree, then makes it a direct child of
\* its root, then sends it the initial topology if no parent was reported,
\* and otherwise sends RequestInitTopology(new) to the reporting parent, which
\* then sends the initial topology to the new node.
C30_TopologyUpdates ==
    /\ [][\A s \in MeshNodes : RoundEnd(s) => UpdateStep(s)]_vars
    /\ [][\A s \in MeshNodes : FollowerRecv(s) => TopologyStep(s)]_vars
C30_Witness ==
    /\ Role(Receiver) = "leader"
    /\ node[Receiver].pc = "idle"
    /\ RootChildren(node[Receiver].tree) = {NodeA, NodeC}
    /\ wire.msg.data = SendNew(NodeC, 255)
    /\ wire.copies = 0
    /\ inbox[NodeC] = <<>>
    /\ Len(inbox[NodeA]) >= 3
C30_ParentWitness ==
    /\ Role(Receiver) = "follower"
    /\ wire.msg.data = RequestInitTopology(NodeC)
    /\ wire.copies = 0
    /\ node[Receiver].organize_queue = <<>>
    /\ Len(inbox[NodeA]) = 3

\* ------------------------------------------------------- a lossy link
\* The mesh of Spec on a link that loses one frame: send_task prints the
\* error of a failed send_async, and the frame is gone.  The lost frame is an
\* UpsertEdge on its way to node s; wire keeps what it said.
FrameOf(f) == ReceiveMessage_new(f.data, f.destination, f.source, f.rssi)
Lose(s) ==
    /\ wire = NoWire
    /\ inbox[s] # <<>>
    /\ FrameOf(Head(inbox[s])).ok
    /\ FrameOf(Head(inbox[s])).msg.data.type = "UpsertEdge"
    /\ wire' = <<FrameOf(Head(inbox[s])).msg>>
    /\ inbox' = [inbox EXCEPT ![s] = Tail(@)]
    /\ lost' = TRUE
    /\ UNCHANGED <<lock, tree, lastRes, topology, startTimer, node, sent, received>>

NextLossy ==
    \/ Next
    \/ \E s \in MeshNodes : Lose(s)

SpecLossy == Init /\ [][NextLossy]_vars

\* The fairness of FairSpec; no frame has to be lost.
FairSpecLossy ==
    /\ SpecLossy
    /\ WF_vars(Tick)
    /\ \A s \in MeshNodes :
          /\ WF_vars(Start(s))
          /\ WF_vars(RoleStep(s))
          /\ WF_vars(DispatcherStep(s))
          /\ WF_vars(AppReceive(s))

\* ------------------------------------------------- claims: lost control frame
Lost == wire # NoWire
\* A frame with the content and final destination of the lost one is in a
\* channel of the link.
Resent ==
    /\ Lost
    /\ \E m \in MeshNodes : \E i \in 1..Len(inbox[m]) :
          /\ FrameOf(inbox[m][i]).ok
          /\ FrameOf(inbox[m][i]).msg.data = wire[1].data
          /\ FrameOf(inbox[m][i]).msg.final_destination = wire[1].final_destination
\* C21: a control frame of a news round that is lost (an UpsertEdge toward a
\* known node or a frame of the initial topology toward a newcomer) is sent
\* again in a later news round.
C21_Original == Lost ~> Resent

\* ------------------------------------------------------- initial topology
\* A sender with a tree that upsert_edge calls have built sends the initial
\* topology to a node that has just started; the frames arrive in order and
\* the dispatcher and the role task of that node work through them.  tree is
\* the tree of the sender, wire tells whether the frames have been sent.
TopoSender == NodeA
TopoNew == NodeB
TopoNodes == {NodeB, NodeC, NodeId(4)}
OptTopoNodes == {None} \cup {Some(n) : n \in TopoNodes}

InitTopo ==
    /\ tree = TreeNew
    /\ lastRes = ""
    /\ topology = Line
    /\ startTimer = NoDelay
    /\ sent = <<>>
    /\ received = [m \in MeshNodes |-> <<>>]
    /\ lost = FALSE
    /\ lock = NoLock
    /\ wire = NoWire
    /\ inbox = [m \in MeshNodes |-> <<>>]
    /\ node = [m \in MeshNodes |->
                 IF m # TopoNew THEN NodeInit
                 ELSE [NodeInit EXCEPT !.tasks = mesh_new(@), !.search = SearchTimeout]]

\* The sender's tree gets one more edge.
Grow(from, to) ==
    /\ wire = NoWire
    /\ tree' = upsert_edge(tree, from, to).tree
    /\ lastRes' = upsert_edge(tree, from, to).res
    /\ UNCHANGED meshVars

\* send_initial_topology(new) at the sender; every frame reaches the link
\* channel of the new node with the sender as its final_source.
SendTopology ==
    /\ wire = NoWire
    /\ InTree(tree, TopoNew)
    /\ \E c \in {send_initial_topology([tree |-> tree, out |-> <<>>], TopoNew)} :
          inbox' = [inbox EXCEPT ![TopoNew] =
                       [i \in 1..Len(c.out) |->
                           [data |-> c.out[i].data, source |-> TopoSender,
                            destination |-> TopoNew, rssi |-> 255]]]
    /\ wire' = <<"sent">>
    /\ UNCHANGED <<lock, tree, lastRes, topology, startTimer, node, sent, received, lost>>

NextTopo ==
    \/ \E from \in OptTopoNodes, to \in TopoNodes : Grow(from, to)
    \/ SendTopology
    \/ DispatcherStep(TopoNew)
    \/ SearcherRecv(TopoNew)
    \/ FollowerRecv(TopoNew)

SpecTopo == InitTopo /\ [][NextTopo]_vars

\* ------------------------------------------------- claims: initial topology
Processed ==
    /\ wire # NoWire
    /\ inbox[TopoNew] = <<>>
    /\ node[TopoNew].organize_queue = <<>>
\* The parent of node x in tree t, as a node: the owner for the root.
ParentIn(t, owner, x) ==
    LET p == ParentNode(t, CHOOSE id \in Carriers(t, x) : TRUE)
    IN IF p = None THEN owner ELSE Unwrap(p)
\* C31: once the new node has processed the frames of send_initial_topology
\* in order, its tree holds every node of the sender's tree under the same
\* parent as at the sender, the sender standing for the sender's root.
C31_Original ==
    Processed =>
        \A x \in TopoNodes :
            InTree(tree, x) =>
                /\ InTree(node[TopoNew].tree, x)
                /\ ParentIn(node[TopoNew].tree, TopoNew, x) = ParentIn(tree, TopoSender, x)

\* The same with a sender whose tree has a free place left.
C31_BelowCapacity ==
    (Processed /\ Cardinality(Reach(tree)) < MAX_LEAFS) =>
        \A x \in TopoNodes :
            InTree(tree, x) =>
                /\ InTree(node[TopoNew].tree, x)
                /\ ParentIn(node[TopoNew].tree, TopoNew, x) = ParentIn(tree, TopoSender, x)

\* ------------------------------------------------------- a run of edges
\* A follower is sent one UpsertEdge after the other by its leader; each
\* arrives when the one before has been worked through.  wire counts the
\* frames and keeps the children whose last UpsertEdge named a parent that the
\* follower did not know: failed for the frames worked through, known and
\* unknown for the frame on its way.
MaxEdges == 3
EdgeLeader == NodeA
EdgeNodes == {NodeA, NodeC, NodeId(4)}
EdgeChildren == {None} \cup {Some(n) : n \in EdgeNodes}
EdgeParents == {None} \cup {Some(n) : n \in EdgeNodes \cup {Receiver}}
\* The message the follower will get for UpsertEdge((n, p)) of the leader.
EdgeMessage(n, p) ==
    ReceiveMessage_new(serialize(SendMessage(Receiver, UpsertEdgeMsg(n, p), None)).data,
                       Receiver, EdgeLeader, 255).msg
KnownParent(t, parent) == parent = None \/ InTree(t, Unwrap(parent))

InitEdges ==
    /\ tree = TreeNew
    /\ lastRes = ""
    /\ topology = Line
    /\ startTimer = NoDelay
    /\ sent = <<>>
    /\ received = [m \in MeshNodes |-> <<>>]
    /\ lost = FALSE
    /\ lock = NoLock
    /\ wire = [count |-> 0, failed |-> {}, known |-> {}, unknown |-> {}]
    /\ inbox = [m \in MeshNodes |-> <<>>]
    /\ node = [m \in MeshNodes |->
                 IF m # Receiver THEN NodeInit
                 ELSE [NodeInit EXCEPT
                         !.tasks = [NoTasks EXCEPT !.dispatcher = 1, !.follower = 1],
                         !.tree = NearTree]]

\* The link of the follower delivers UpsertEdge((n, p)) of the leader.
EdgeArrive(n, p) ==
    /\ wire.count < MaxEdges
    /\ inbox[Receiver] = <<>>
    /\ node[Receiver].organize_queue = <<>>
    /\ inbox' = [inbox EXCEPT ![Receiver] =
                    <<[data |-> serialize(SendMessage(Receiver, UpsertEdgeMsg(n, p), None)).data,
                       source |-> EdgeLeader, destination |-> Receiver, rssi |-> 255]>>]
    /\ \E m \in {EdgeMessage(n, p)} :
          wire' = [count |-> wire.count + 1,
                   failed |-> (wire.failed \ wire.known) \cup wire.unknown,
                   known |-> IF KnownParent(node[Receiver].tree, edge_parent(m))
                             THEN {edge_new(m)} ELSE {},
                   unknown |-> IF KnownParent(node[Receiver].tree, edge_parent(m))
                               THEN {} ELSE {edge_new(m)}]
    /\ UNCHANGED <<lock, tree, lastRes, topology, startTimer, node, sent, received, lost>>

NextEdges ==
    \/ \E n \in EdgeChildren, p \in EdgeParents : EdgeArrive(n, p)
    \/ DispatcherStep(Receiver)
    \/ FollowerRecv(Receiver)

SpecEdges == InitEdges /\ [][NextEdges]_vars

\* ------------------------------------------------- claims: unknown parent
\* The follower takes an UpsertEdge that names a known parent for a child
\* whose last UpsertEdge named an unknown one.
RetryStep(s) ==
    LET m == Head(node[s].organize_queue)
    IN (/\ m.data.type = "UpsertEdge"
        /\ edge_new(m) \in wire.failed
        /\ KnownParent(node[s].tree, edge_parent(m)))
       => /\ InTree(node'[s].tree, edge_new(m))
          /\ ParentNode(node'[s].tree, CHOOSE id \in Carriers(node'[s].tree, edge_new(m)) : TRUE)
                = edge_parent(m)
\* C32: a follower that gets UpsertEdge((n, Some(x))) with x not in its tree
\* goes on with the control messages that follow, and a later UpsertEdge for
\* the same child that names a parent the follower knows succeeds and leaves
\* the child in the tree under that parent.
C32_Original ==
    /\ [](node[Receiver].organize_queue # <<>> => ENABLED FollowerRecv(Receiver))
    /\ [][FollowerRecv(Receiver) => RetryStep(Receiver)]_vars

\* The same while the arena of the follower's tree has a free slot.
C32_WithFreeSlot ==
    [][(FollowerRecv(Receiver) /\ Len(node[Receiver].tree.leafs.free) > 0)
          => RetryStep(Receiver)]_vars

\* ------------------------------------------------- one executor
\* The tasks of SpecLock on the executor the code runs them on: spawn_local
\* puts every task on one thread, and a task that is polled runs until it
\* reaches an await that is not ready.
Suspended(t) == Instr(t).op = "await"
\* Task t may run: no other task is in the middle of its run.
Turn(t) == \A u \in LockTasks \ {t} : Suspended(u)
\* An awaited future completes and its task is polled.
Resume(t) == Turn(t) /\ Complete(t)
\* The polled task takes its next step.
Proceed(t) ==
    /\ Turn(t)
    /\ \/ Branch(t)
       \/ CallStep(t)
       \/ ReturnStep(t)
       \/ BecomeStep(t)
       \/ Acquire(t)
       \/ Release(t)

InitCoop == InitLock

NextCoop ==
    \/ \E t \in LockTasks : Resume(t)
    \/ \E t \in LockTasks : Proceed(t)

SpecCoop == InitCoop /\ [][NextCoop]_vars

\* The selects with a timeout: the search round, the poll of a neighbour and
\* the leader's tick.
AtSelect(t) ==
    \/ Top(t).fn = "searcher_task" /\ Top(t).at = 1
    \/ Top(t).fn = "collect_remote_news" /\ Top(t).at = 5
    \/ Top(t).fn = "leader_task" /\ Top(t).at = 1
\* The searcher handles a message it has taken from the queue: the
\* UpsertEdge arm of wait_for_invitation, up to the change of role.
Handling(t) == Top(t).fn = "searcher_task" /\ Top(t).at \in 6..9
\* A task that waits in a select, or whose timeout has just won, holds no
\* guard and is in no wait queue.
HoldsNothing(t) == lock.holder # t /\ ~Waiting(t)
C33_HandlingWitness ==
    /\ Top("role").fn = "searcher_task" /\ Top("role").at = 7
    /\ lock.holder = "role"

\* ------------------------------------------------- upsert_edge and capacity
\* The reachable leaves whose get_node() equals `from` (the Own root for None).
ParentLeaves(t, from) == {id \in Reach(t) : get_node(t.leafs.slots[id]) = from}
\* `to` is the last child of a leaf that matches `from`.
LastChild(t, from, to) ==
    \E p \in ParentLeaves(t, from) :
        LET nexts == t.leafs.slots[p].nexts
        IN /\ nexts # <<>>
           /\ t.leafs.slots[nexts[Len(nexts)]].node = Some(to)
\* The parent of the call is a leaf outside the subtree that the call moves.
ParentStays(t, from, to) ==
    \E p \in ParentLeaves(t, from) :
        \A c \in Carriers(t, to) : p \notin Subtree(t, c)
\* C34 as stated: upsert_edge(from, to) returns NodeNotFound only when no leaf
\* matches `from`: whenever the parent leaf exists and `to` is in the tree or
\* a slot is free, the call succeeds and `to` is the last child of `from`,
\* also when `from` already has MAX_CHILD_LEAFS children.
C34_Original ==
    \A from \in OptNodes, to \in TreeNodes :
        (ParentStays(tree, from, to)
            /\ (InTree(tree, to) \/ Len(tree.leafs.free) > 0)) =>
            LET r == upsert_edge(tree, from, to)
            IN r.res = "Ok" /\ LastChild(r.tree, from, to)
\* The same with room in the child list of the parent: this holds.
C34_WithRoom ==
    \A from \in OptNodes, to \in TreeNodes :
        (/\ ParentStays(tree, from, to)
         /\ InTree(tree, to) \/ Len(tree.leafs.free) > 0
         /\ \A p \in ParentLeaves(tree, from) :
               Len(SelectSeq(tree.leafs.slots[p].nexts,
                             LAMBDA c : tree.leafs.slots[c].node # Some(to)))
                   < MAX_CHILD_LEAFS) =>
            LET r == upsert_edge(tree, from, to)
            IN r.res = "Ok" /\ LastChild(r.tree, from, to)

\* ------------------------------------------------------------ the arena
\* One Arena of capacity MAX_LEAFS under alloc, remove and get. wire holds
\* the arena, for every id the value its last alloc stored (None once the id
\* was removed), and the last call with its id and value.
ArenaValues == {new_foreign(n) : n \in 1..2}
NoCall == [op |-> "", id |-> None, val |-> None]

InitArena ==
    /\ tree = TreeNew
    /\ lastRes = ""
    /\ topology = Single
    /\ startTimer = NoDelay
    /\ node = [m \in MeshNodes |-> NodeInit]
    /\ inbox = [m \in MeshNodes |-> <<>>]
    /\ sent = <<>>
    /\ received = [m \in MeshNodes |-> <<>>]
    /\ lost = FALSE
    /\ lock = NoLock
    /\ wire = [arena |-> ArenaNew, stored |-> [i \in SlotIds |-> None], call |-> NoCall]

ArenaKeeps == UNCHANGED <<tree, topology, startTimer, node, inbox, sent, received, lost, lock>>

\* arena.alloc(val)
Alloc(val) ==
    LET r == ArenaAlloc(wire.arena, val)
    IN /\ wire' = [arena |-> r.arena,
                   stored |-> IF r.id = None THEN wire.stored
                              ELSE [wire.stored EXCEPT ![Unwrap(r.id)] = Some(val)],
                   call |-> [op |-> "alloc", id |-> r.id, val |-> Some(val)]]
       /\ lastRes' = IF r.id = None THEN "None" ELSE "Some"
       /\ ArenaKeeps

\* arena.remove(id)
Remove(id) ==
    LET r == ArenaRemove(wire.arena, id)
    IN /\ wire' = [arena |-> r.arena,
                   stored |-> IF r.res = "Ok" THEN [wire.stored EXCEPT ![id] = None]
                              ELSE wire.stored,
                   call |-> [op |-> "remove", id |-> Some(id), val |-> r.val]]
       /\ lastRes' = r.res
       /\ ArenaKeeps

\* arena.get(id)
Get(id) ==
    LET r == ArenaGet(wire.arena, id)
    IN /\ wire' = [wire EXCEPT !.call = [op |-> "get", id |-> Some(id), val |-> r.val]]
       /\ lastRes' = r.res
       /\ ArenaKeeps

NextArena ==
    \/ \E val \in ArenaValues : Alloc(val)
    \/ \E id \in SlotIds : Remove(id)
    \/ \E id \in SlotIds : Get(id)

SpecArena == InitArena /\ [][NextArena]_vars

OccupiedIds(a) == {id \in SlotIds : a.slots[id].kind # "Empty"}
\* C36: the free ids and the occupied ids partition 0..N-1 and no id is
\* twice in the free list; alloc returns None exactly when all N slots are
\* occupied and otherwise an id that was not occupied; get(id) returns the
\* value alloc stored under id until remove(id); remove and get on an empty
\* slot return an error and change nothing; an id that remove has just given
\* back is the one the next alloc hands out.
C36_Arena ==
    LET a == wire.arena
        occ == OccupiedIds(a)
    IN /\ Range(a.free) \cup occ = SlotIds
       /\ Range(a.free) \cap occ = {}
       /\ Cardinality(Range(a.free)) = Len(a.free)
       /\ \A val \in ArenaValues :
             LET r == ArenaAlloc(a, val)
             IN /\ (r.id = None) <=> (occ = SlotIds)
                /\ r.id # None =>
                      /\ Unwrap(r.id) \in SlotIds \ occ
                      /\ ArenaGet(r.arena, Unwrap(r.id)).val = Some(val)
                      /\ OccupiedIds(r.arena) = occ \cup {Unwrap(r.id)}
       /\ \A id \in SlotIds :
             /\ wire.stored[id] # None =>
                   ArenaGet(a, id) = [res |-> "Ok", val |-> wire.stored[id]]
             /\ wire.stored[id] = None =>
                   /\ ArenaGet(a, id).res = "SlotEmptyError"
                   /\ ArenaRemove(a, id).res = "InvalidIndexError"
                   /\ ArenaRemove(a, id).arena = a
       /\ (wire.call.op = "remove" /\ lastRes = "Ok") =>
             \A val \in ArenaValues : ArenaAlloc(a, val).id = wire.call.id
\* The arena is full and the id of the last alloc is the one the first alloc
\* of a new arena hands out: it was removed and handed out again.
C36_Witness ==
    /\ wire.call.op = "alloc" /\ lastRes = "Some"
    /\ OccupiedIds(wire.arena) = SlotIds
    /\ wire.call.id = Some(MAX_LEAFS - 1)

\* C37 as stated: after any sequence of upsert_edge calls the number of
\* occupied arena slots equals the number of leaves reachable from the root:
\* a failed call consumes no arena capacity, so upsert_edge(None, x) for a
\* new x returns LeafAllocation only when MAX_LEAFS leaves are reachable.
C37_Original ==
    /\ Cardinality(OccupiedIds(tree.leafs)) = Cardinality(Reach(tree))
    /\ \A x \in TreeNodes :
          (~InTree(tree, x)
              /\ upsert_edge(tree, None, x).res = "LeafAllocationError") =>
              Cardinality(Reach(tree)) = MAX_LEAFS
\* What holds instead: every reachable leaf is occupied, never the reverse.
C37_ReachOccupied == Reach(tree) \subseteq OccupiedIds(tree.leafs)

\* ------------------------------------------------- Discovery at a leader
\* The leader of s takes a Discovery from its organize_queue and its news
\* list has room: the sender is appended to the list.
DiscoveryStep(s) ==
    LET m == Head(node[s].organize_queue)
    IN (m.data.type = "Discovery" /\ ~FullNews(s)) =>
          node'[s].news = Append(node[s].news, NewsEntry(m.final_source, m.rssi))
\* C38 as stated: every Discovery that reaches the organize_queue of a leader
\* is recorded in the leader's news list (unless the list is full), also a
\* Discovery that is dequeued while the leader polls its neighbours inside a
\* news round.
C38_Original ==
    [][\A s \in MeshNodes :
          (LeaderRecv(s) \/ LeaderPollRecv(s)) => DiscoveryStep(s)]_vars
\* The part outside the news round holds.
C38_Idle ==
    [][\A s \in MeshNodes : LeaderRecv(s) => DiscoveryStep(s)]_vars

\* ------------------------------------------------------------ the cursor
\* One Cursor over a short buffer under take(n), n any usize. UsizeMax stands
\* for usize::MAX: the sum pos + n of take is computed in usize.
UsizeMax == 7
MaxBuf == 3
CursorBytes == {1, 2}
CursorBufs == UNION {[1..len -> CursorBytes] : len \in 0..MaxBuf}
\* Cursor::take with the arithmetic of usize: when pos + n does not fit, a
\* debug build panics on the addition and a release build wraps the sum and
\* panics on the slice whose end is before its start.
take_usize(cursor, n) ==
    IF n > UsizeMax - cursor.pos
    THEN [res |-> "panic", bytes |-> <<>>, cursor |-> cursor]
    ELSE LET t == take(cursor, n)
         IN [res |-> IF t.ok THEN "Ok" ELSE "BufferUnderflowError",
             bytes |-> t.bytes, cursor |-> t.cursor]

InitCursor ==
    /\ tree = TreeNew
    /\ lastRes = ""
    /\ topology = Single
    /\ startTimer = NoDelay
    /\ node = [m \in MeshNodes |-> NodeInit]
    /\ inbox = [m \in MeshNodes |-> <<>>]
    /\ sent = <<>>
    /\ received = [m \in MeshNodes |-> <<>>]
    /\ lost = FALSE
    /\ lock = NoLock
    /\ \E buf \in CursorBufs : wire = [cursor |-> CursorNew(buf), n |-> 0, bytes |-> <<>>]

\* cursor.take(n); a panic ends the run.
Take(n) ==
    /\ lastRes # "panic"
    /\ \E r \in {take_usize(wire.cursor, n)} :
          /\ wire' = [cursor |-> r.cursor, n |-> n, bytes |-> r.bytes]
          /\ lastRes' = r.res
    /\ UNCHANGED <<tree, topology, startTimer, node, inbox, sent, received, lost, lock>>

NextCursor == \E n \in 0..UsizeMax : Take(n)

SpecCursor == InitCursor /\ [][NextCursor]_vars

Unread(cursor) == Len(cursor.buf) - cursor.pos
\* take(n) on cursor c does what the claim says.
TakeOk(c, n) ==
    LET r == take_usize(c, n)
    IN IF n <= Unread(c)
       THEN /\ r.res = "Ok"
            /\ r.bytes = [i \in 1..n |-> c.buf[c.pos + i]]
            /\ r.cursor.pos = c.pos + n
            /\ r.cursor.buf = c.buf
       ELSE /\ r.res = "BufferUnderflowError"
            /\ r.cursor = c
            /\ take_usize(r.cursor, Unread(c)).res = "Ok"
\* C40 as stated: take(n) with n at most the number of unread bytes returns
\* exactly the next n bytes and advances the position by n; with a larger n
\* it returns BufferUnderflow and leaves the position unchanged, so that a
\* following take of the remaining length still succeeds.
C40_Original == \A n \in 0..UsizeMax : TakeOk(wire.cursor, n)
\* The same for every n whose sum with the position fits in usize: this holds.
C40_InRange ==
    \A n \in 0..(UsizeMax - wire.cursor.pos) : TakeOk(wire.cursor, n)
\* An underflow was reported in the middle of a buffer.
C40_Witness ==
    /\ lastRes = "BufferUnderflowError"
    /\ wire.cursor.pos = 1
    /\ Len(wire.cursor.buf) = 3
    /\ wire.n = 3

\* ------------------------------------------------- end of a news round
\* A leader B whose tree holds A, while A is still a searcher: the
\* UpsertEdge that invited A was dropped by A's link. C, which only B can
\* hear, is switched on later. A searcher broadcasts Discovery once per
\* search round.
InitPoll ==
    /\ tree = TreeNew
    /\ lastRes = ""
    /\ topology = Line
    /\ sent = <<>>
    /\ received = [m \in MeshNodes |-> <<>>]
    /\ lost = TRUE
    /\ lock = NoLock
    /\ wire = NoWire
    /\ inbox = [m \in MeshNodes |-> <<>>]
    /\ \E d \in 1..MaxStartDelay :
          startTimer = [m \in MeshNodes |-> IF m = NodeC THEN d ELSE 0]
    /\ \E a \in 1..SearchTimeout, nw \in {<<>>, <<NewsEntry(NodeA, 255)>>} :
          node = [m \in MeshNodes |->
                    IF m = Receiver
                    THEN [NodeInit EXCEPT
                            !.tasks = [NoTasks EXCEPT !.dispatcher = 1, !.leader = 1],
                            !.tree = NearTree,
                            !.news = nw,
                            !.tick = 1]
                    ELSE IF m = NodeA
                    THEN [NodeInit EXCEPT !.tasks = mesh_new(@), !.search = a]
                    ELSE NodeInit]

NextPoll ==
    \/ \E s \in MeshNodes : Start(s)
    \/ \E s \in MeshNodes : RoleStep(s)
    \/ \E s \in MeshNodes : DispatcherStep(s)
    \/ Tick

SpecPoll == InitPoll /\ [][NextPoll]_vars

\* Timers expire, and every task that can run does.
FairSpecPoll ==
    /\ SpecPoll
    /\ WF_vars(Tick)
    /\ \A s \in MeshNodes :
          /\ WF_vars(Start(s))
          /\ WF_vars(RoleStep(s))
          /\ WF_vars(DispatcherStep(s))

\* C35 as stated: every news round terminates, also when the polled
\* neighbour never answers and while Discovery broadcasts keep arriving: a
\* leader that polls its neighbours is eventually back in the select of
\* leader_task, waiting for the next tick or message.
C35_Original == Polling(Receiver) ~> ~Polling(Receiver)
\* The leader polls A, which is a searcher and does not answer.
C35_Polling ==
    /\ Polling(Receiver)
    /\ node[NodeA].tasks.searcher > 0
    /\ node[NodeC].tasks.searcher > 0

\* ------------------------------------------------------- forwarding paths
\* A frame for d is at node s, which `seen` holds: the frame goes to
\* next_hop(d) of the tree of s, and a node other than d that gets it forwards
\* it the same way (dispatcher_task). TRUE when the frame never comes to a
\* node a second time.
RECURSIVE NoRevisit(_, _, _)
NoRevisit(s, d, seen) ==
    LET h == next_hop(node[s].tree, d)
        n == Unwrap(h.node)
    IN IF ~h.ok THEN TRUE
       ELSE IF n \in seen THEN FALSE
       ELSE IF n = d \/ n \notin MeshNodes THEN TRUE
       ELSE NoRevisit(n, d, seen \cup {n})
====
